---------------------------- MODULE Spec2Model ----------------------------
(***************************************************************************)
(* A model of blocktop's ingestion-and-storage engine: the SQLite store    *)
(* (src/db.rs), its transaction codec, the start-up seed (src/main.rs),    *)
(* the indexing service (src/services/blockchain.rs) and the display       *)
(* loop's use of the store (src/ui/mod.rs, src/ui/app.rs).                 *)
(*                                                                         *)
(* Numbers.  TLC's integers are 32 bits wide, the program's are 64, 128    *)
(* and 256 bits wide.  A program integer is therefore the record           *)
(* [hi |-> h, lo |-> l] standing for h * 2^63 + l with l < 2^63: a u64 has *)
(* hi in 0..1, a u128 or U256 any hi.  `x as u64` keeps hi % 2 (the bit    *)
(* 2^63) and lo; rusqlite's ToSql for u64 fails when hi = 1 (the value     *)
(* does not fit SQLite's i64).                                             *)
(***************************************************************************)
EXTENDS Integers, Sequences, FiniteSets, TLC

VARIABLES
    block_headers,  \* table block_headers: the rows, in rowid order
    transactions,   \* table transactions: the rows, in rowid order
    w,              \* the thread inside Database::add_block / add_block_header
    nwrites,        \* number of write calls begun so far
    rd,             \* the reader threads: their position in a store query
    codec,          \* one add_transaction / row_to_transaction exchange
    main,           \* position of main() and its options
    svc,            \* position of the BlockchainService thread
    app             \* the display loop (ui::run, App)

vars == <<block_headers, transactions, w, nwrites, rd, codec, main, svc, app>>

(***************************************************************************)
(* Values                                                                  *)
(***************************************************************************)

None == << >>
Some(x) == <<x>>
IsSome(o) == Len(o) = 1
Unwrap(o) == o[1]

Ok(x) == [res |-> "Ok", v |-> x]
Err == [res |-> "Err"]
Panic == [res |-> "Panic"]

W(h, l) == [hi |-> h, lo |-> l]

\* `x as u64` on a u128 (db.rs 356, 361, 362): truncation modulo 2^64.
AsU64(x) == W(x.hi % 2, x.lo)

\* SQLite values.
SqlNull == [t |-> "null"]
SqlInt(n) == [t |-> "integer", v |-> n]
SqlReal(x) == [t |-> "real", v |-> x]
SqlText(f, x) == [t |-> "text", fmt |-> f, v |-> x]
SqlFail == [t |-> "fail"]

\* rusqlite's ToSql for u64: an i64, or ToSqlConversionFailure.
ToSqlU64(x) == IF x.hi = 0 THEN SqlInt(x.lo) ELSE SqlFail

\* rusqlite's ToSql for Option<u64>.
ToSqlOptU64(o) == IF IsSome(o) THEN ToSqlU64(Unwrap(o)) ELSE SqlNull

\* u64::to_string, U256::to_string: decimal text.
DecString(x) == SqlText("dec", x)

\* to_string of a hash, an address or Bytes: 0x-prefixed hex text.
HexString(x) == SqlText("hex", x)

\* The column affinity SQLite applies on insert (schema of db.rs 511-557).
\* INTEGER and NUMERIC (the STRING and TIMESTAMP columns) turn well-formed
\* decimal text into an integer, or into a real when it exceeds an i64;
\* hex text is left as text.
ApplyAffinity(aff, val) ==
    IF aff \in {"INTEGER", "NUMERIC"} /\ val.t = "text" /\ val.fmt = "dec"
    THEN IF val.v.hi = 0 THEN SqlInt(val.v.lo) ELSE SqlReal(val.v)
    ELSE IF aff = "TEXT" /\ val.t = "integer"
    THEN SqlText("dec", W(0, val.v))
    ELSE val

\* row.get::<_, u64>: only a non-negative SQL integer converts.
GetU64(val) == IF val.t = "integer" THEN Ok(W(0, val.v)) ELSE Err

\* row.get::<_, Option<u64>>
GetOptU64(val) ==
    IF val.t = "null" THEN Ok(None)
    ELSE IF val.t = "integer" THEN Ok(Some(W(0, val.v)))
    ELSE Err

\* row.get::<_, String> followed by .parse() of a hash, address or Bytes.
GetHex(val) == IF val.t = "text" /\ val.fmt = "hex" THEN Ok(val.v) ELSE Err

\* row.get::<_, String> followed by U256::from_str (decimal or 0x-hex).
GetU256(val) == IF val.t = "text" THEN Ok(val.v) ELSE Err

(***************************************************************************)
(* Transactions (alloy::rpc::types::Transaction) and their codec           *)
(***************************************************************************)

\* TxKind: contract creation, or a call to an address.  Address 0 is
\* Address::ZERO.
Create == [kind |-> "Create"]
Call(a) == [kind |-> "Call", a |-> a]
ADDRESS_ZERO == 0

\* The fields of a transaction the store is concerned with.  gas_price is
\* Some exactly for types 0 and 1, the two fee fields exactly for types 2,
\* 3 and 4; chain_id may be None only for type 0; `to` is always a Call for
\* types 3 and 4.  The access list, the blob hashes and the signature are
\* not modelled (the code does not persist them).
Transaction(ty, hash, chain, to, price, fee, prio, bhash, bnum, idx) ==
    [hash |-> hash,
     type |-> ty,
     chain_id |-> chain,
     nonce |-> W(0, 7),
     gas_price |-> IF ty \in {0, 1} THEN Some(price) ELSE None,
     gas_limit |-> W(0, 21),
     to |-> to,
     value |-> W(2, 1),
     input |-> 0,
     max_fee_per_gas |-> IF ty \in {0, 1} THEN None ELSE Some(fee),
     max_priority_fee_per_gas |-> IF ty \in {0, 1} THEN None ELSE Some(prio),
     from |-> 1,
     block_hash |-> bhash,
     block_number |-> bnum,
     transaction_index |-> idx]

\* alloy's Transaction::max_fee_per_gas(): the gas price for types 0 and 1.
TxMaxFeePerGas(tx) ==
    IF tx.type \in {0, 1} THEN Unwrap(tx.gas_price)
    ELSE Unwrap(tx.max_fee_per_gas)

UnwrapOr(o, d) == IF IsSome(o) THEN Unwrap(o) ELSE d

\* db.rs 282-302: the recipient column; a creation is written as the zero
\* address.
ToAddress(tx) == IF tx.to.kind = "Create" THEN ADDRESS_ZERO ELSE tx.to.a

\* db.rs 347-363: the parameters bound to the INSERT, in column order.
TransactionParams(tx) ==
    [hash |-> HexString(tx.hash),
     block_hash |-> HexString(Unwrap(tx.block_hash)),
     block_number |-> DecString(Unwrap(tx.block_number)),
     position |-> DecString(Unwrap(tx.transaction_index)),
     from_address |-> HexString(tx.from),
     type |-> DecString(W(0, tx.type)),
     chain_id |-> ToSqlU64(UnwrapOr(tx.chain_id, W(0, 1))),
     nonce |-> ToSqlU64(tx.nonce),
     gas_price |-> ToSqlU64(AsU64(UnwrapOr(tx.gas_price, W(0, 0)))),
     gas_limit |-> ToSqlU64(tx.gas_limit),
     to_address |-> HexString(ToAddress(tx)),
     value |-> DecString(tx.value),
     input |-> HexString(tx.input),
     max_fee_per_gas |-> ToSqlU64(AsU64(TxMaxFeePerGas(tx))),
     max_priority_fee_per_gas |->
         IF IsSome(tx.max_priority_fee_per_gas)
         THEN ToSqlU64(AsU64(Unwrap(tx.max_priority_fee_per_gas)))
         ELSE SqlNull]

\* db.rs 537-557: the declared column types of table transactions.
TransactionsAffinity ==
    [hash |-> "TEXT", block_hash |-> "TEXT", block_number |-> "INTEGER",
     position |-> "INTEGER", from_address |-> "TEXT", type |-> "INTEGER",
     chain_id |-> "INTEGER", nonce |-> "INTEGER", gas_price |-> "INTEGER",
     gas_limit |-> "INTEGER", to_address |-> "TEXT", value |-> "TEXT",
     input |-> "BLOB", max_fee_per_gas |-> "INTEGER",
     max_priority_fee_per_gas |-> "INTEGER"]

\* db.rs 305-310: the transaction must carry its hash and block position.
InfoComplete(tx) ==
    /\ IsSome(tx.block_hash)
    /\ IsSome(tx.block_number)
    /\ IsSome(tx.transaction_index)

\* Database::add_transaction without the connection: Ok(the row the INSERT
\* stores) or Err (incomplete info, or a parameter that does not convert).
add_transaction(tx) ==
    IF ~InfoComplete(tx) THEN Err
    ELSE LET params == TransactionParams(tx)
         IN IF \E c \in DOMAIN params : params[c].t = "fail" THEN Err
            ELSE Ok([c \in DOMAIN params |->
                        ApplyAffinity(TransactionsAffinity[c], params[c])])

\* The `?` after each row.get and parse: the first failure is returned.
AnyErr(results) == \E i \in DOMAIN results : results[i].res = "Err"

\* A plausible slip: the fall-through arm written like Database::block's
\* `_ => unimplemented!()`.
UnsupportedTransactionType_unimplemented == Panic

\* db.rs 653: the arm for every type tag other than 0, 1, 2, 3.
UnsupportedTransactionType == Err

\* db.rs 587-590: the zero address reads back as a creation.
ToTxKind(a) == IF a = ADDRESS_ZERO THEN Create ELSE Call(a)

\* Database::row_to_transaction (db.rs 564-664): Ok(transaction), Err, or
\* a panic (the unwrap of max_priority_fee_per_gas in arms 2 and 3).
row_to_transaction(row) ==
    LET hash == GetHex(row.hash)
        chain_id == GetU64(row.chain_id)
        nonce == GetU64(row.nonce)
        gas_price == GetU64(row.gas_price)
        gas_limit == GetU64(row.gas_limit)
        to == GetHex(row.to_address)
        value == GetU256(row.value)
        input == GetHex(row.input)
        max_fee == GetU64(row.max_fee_per_gas)
        max_prio == GetOptU64(row.max_priority_fee_per_gas)
        tx_type == GetU64(row.type)
        block_hash == GetHex(row.block_hash)
        block_number == GetU64(row.block_number)
        position == GetU64(row.position)
        from == GetHex(row.from_address)
        ty == tx_type.v.lo
        Decoded(chain, price, kind, fee, prio) ==
            IF AnyErr(<<block_hash, block_number, position, from>>)
            THEN Err
            ELSE Ok([hash |-> hash.v,
                     type |-> ty,
                     chain_id |-> chain,
                     nonce |-> nonce.v,
                     gas_price |-> price,
                     gas_limit |-> gas_limit.v,
                     to |-> kind,
                     value |-> value.v,
                     input |-> input.v,
                     max_fee_per_gas |-> fee,
                     max_priority_fee_per_gas |-> prio,
                     from |-> from.v,
                     block_hash |-> Some(block_hash.v),
                     block_number |-> Some(block_number.v),
                     transaction_index |-> Some(position.v)])
    IN IF AnyErr(<<hash, chain_id, nonce, gas_price, gas_limit, to, value,
                   input, max_fee, max_prio, tx_type>>)
       THEN Err
       ELSE CASE ty = 0 ->
                   Decoded(Some(chain_id.v), Some(gas_price.v),
                           ToTxKind(to.v), None, None)
              [] ty = 1 ->
                   Decoded(Some(chain_id.v), Some(gas_price.v),
                           ToTxKind(to.v), None, None)
              [] ty = 2 ->
                   IF ~IsSome(max_prio.v) THEN Panic
                   ELSE Decoded(Some(chain_id.v), None, ToTxKind(to.v),
                                Some(max_fee.v), max_prio.v)
              [] ty = 3 ->
                   IF ~IsSome(max_prio.v) THEN Panic
                   ELSE Decoded(Some(chain_id.v), None, Call(to.v),
                                Some(max_fee.v), max_prio.v)
              [] OTHER -> UnsupportedTransactionType

(***************************************************************************)
(* The codec on its own: one transaction written with add_transaction and  *)
(* read back with transaction(hash), or one row found in an on-disk        *)
(* database and read.                                                      *)
(***************************************************************************)

Fees == {W(0, 0), W(0, 5), W(1, 0), W(2, 5)}

CodecTxs ==
    LET info == {None, Some(W(0, 0))}
        T(ty, chain, to, g, f, p, idx) ==
            Transaction(ty, 1, chain, to, g, f, p, Some(1), Some(W(0, 100)),
                        idx)
    IN  {T(0, ch, to, g, g, g, idx) :
            ch \in {None, Some(W(0, 1)), Some(W(0, 5))},
            to \in {Create, Call(0), Call(2)}, g \in Fees, idx \in info}
        \cup {T(1, Some(W(0, 1)), to, g, g, g, idx) :
            to \in {Create, Call(0), Call(2)}, g \in Fees, idx \in info}
        \cup {T(2, Some(W(0, 1)), to, f, f, p, idx) :
            to \in {Create, Call(0), Call(2)}, f \in Fees, p \in Fees,
            idx \in info}
        \cup {T(ty, Some(W(0, 1)), to, f, f, p, idx) :
            ty \in {3, 4}, to \in {Call(0), Call(2)}, f \in Fees,
            p \in Fees, idx \in info}

\* Rows of table transactions as another writer of the file may have left
\* them: any type tag, and NULL in the nullable columns.
StoredRows ==
    LET base == add_transaction(
                    Transaction(2, 1, Some(W(0, 1)), Call(2), W(0, 5),
                                W(0, 30), W(0, 2), Some(1), Some(W(0, 100)),
                                Some(W(0, 0)))).v
    IN  {[base EXCEPT !.type = SqlInt(ty), !.gas_price = g,
                      !.max_priority_fee_per_gas = p, !.chain_id = ch] :
            ty \in 0..6, g \in {SqlNull, SqlInt(5)},
            p \in {SqlNull, SqlInt(2)}, ch \in {SqlNull, SqlInt(1)}}

CodecIdle == [pc |-> "off", tx |-> None, row |-> None, wres |-> None,
              dec |-> None]

\* Database::add_transaction (db.rs 276-366) on the input transaction.
CodecAddTransaction ==
    /\ codec.pc = "write"
    /\ LET r == add_transaction(Unwrap(codec.tx))
       IN  codec' = IF r.res = "Ok"
                    THEN [codec EXCEPT !.pc = "read", !.row = Some(r.v),
                                       !.wres = Some("Ok")]
                    ELSE [codec EXCEPT !.pc = "done", !.wres = Some("Err")]
    /\ UNCHANGED <<block_headers, transactions, w, nwrites, rd, main, svc,
                   app>>

\* Database::transaction (db.rs 191-207) on the stored row.
CodecTransaction ==
    /\ codec.pc = "read"
    /\ codec' = [codec EXCEPT !.pc = "done",
                     !.dec = Some(row_to_transaction(Unwrap(codec.row)))]
    /\ UNCHANGED <<block_headers, transactions, w, nwrites, rd, main, svc,
                   app>>

(***************************************************************************)
(* Block headers and the queries of the store                              *)
(***************************************************************************)

\* A header: its hash, its number and the six optional fields of the
\* later forks.  A root or hash is a number, 0 for the all-zero B256; the
\* other columns are written and read back without taking part in any query.
FullHeader(hash, number, fee, wroot, gas, excess, broot, rhash) ==
    [hash |-> hash,
     number |-> W(0, number),
     base_fee_per_gas |-> fee,
     withdrawals_root |-> wroot,
     blob_gas_used |-> gas,
     excess_blob_gas |-> excess,
     parent_beacon_block_root |-> broot,
     requests_hash |-> rhash]

\* A header of the latest fork, every optional field present and not zero.
Header(hash, number) ==
    FullHeader(hash, number, Some(W(0, 7)), Some(3), Some(W(0, 5)),
               Some(W(0, 6)), Some(4), Some(8))

\* db.rs 441-467: the parameters of the header INSERT.  An absent optional
\* field is written as its type's default (unwrap_or_default()): 0, or the
\* all-zero hash.  base_fee_per_gas is bound as a u64 (the headers of the
\* model keep it below 2^63), the other numbers as decimal text.
HeaderParams(header) ==
    [hash |-> HexString(header.hash),
     number |-> DecString(header.number),
     base_fee_per_gas |->
         ToSqlU64(UnwrapOr(header.base_fee_per_gas, W(0, 0))),
     withdrawals_root |-> HexString(UnwrapOr(header.withdrawals_root, 0)),
     blob_gas_used |-> DecString(UnwrapOr(header.blob_gas_used, W(0, 0))),
     excess_blob_gas |->
         DecString(UnwrapOr(header.excess_blob_gas, W(0, 0))),
     parent_beacon_block_root |->
         HexString(UnwrapOr(header.parent_beacon_block_root, 0)),
     requests_hash |-> HexString(UnwrapOr(header.requests_hash, 0))]

\* db.rs 511-535: STRING columns have numeric affinity.
BlockHeadersAffinity ==
    [hash |-> "NUMERIC", number |-> "INTEGER",
     base_fee_per_gas |-> "INTEGER", withdrawals_root |-> "NUMERIC",
     blob_gas_used |-> "INTEGER", excess_blob_gas |-> "INTEGER",
     parent_beacon_block_root |-> "NUMERIC", requests_hash |-> "INTEGER"]

\* The row Database::add_block_header inserts (db.rs 389-471).
add_block_header(header) ==
    LET params == HeaderParams(header)
    IN  [c \in DOMAIN params |->
            ApplyAffinity(BlockHeadersAffinity[c], params[c])]

\* db.rs 685-688, 696-703: `match row.get::<&str, u64>(..)? { 0 => None,
\* x => Some(x) }`.
ZeroIsAbsent(n) == IF n = W(0, 0) THEN None ELSE Some(n)

\* The empty text.
EmptyString == SqlText("empty", 0)

\* db.rs 689-695, 704-717: `match row.get::<&str, String>(..)?.as_str()
\* { "" => None, x => Some(x.parse()?) }`.
GetOptHex(val) ==
    IF val = EmptyString THEN Ok(None)
    ELSE IF GetHex(val).res = "Ok" THEN Ok(Some(GetHex(val).v))
    ELSE Err

\* Database::row_to_header (db.rs 666-721).
row_to_header(row) ==
    LET number == GetU64(row.number)
        hash == GetHex(row.hash)
        base_fee == GetU64(row.base_fee_per_gas)
        withdrawals == GetOptHex(row.withdrawals_root)
        blob_gas == GetU64(row.blob_gas_used)
        excess_blob_gas == GetU64(row.excess_blob_gas)
        beacon_root == GetOptHex(row.parent_beacon_block_root)
        requests == GetOptHex(row.requests_hash)
    IN  IF AnyErr(<<number, hash, base_fee, withdrawals, blob_gas,
                   excess_blob_gas, beacon_root, requests>>)
        THEN Err
        ELSE Ok([hash |-> hash.v,
                 number |-> number.v,
                 base_fee_per_gas |-> ZeroIsAbsent(base_fee.v),
                 withdrawals_root |-> withdrawals.v,
                 blob_gas_used |-> ZeroIsAbsent(blob_gas.v),
                 excess_blob_gas |-> ZeroIsAbsent(excess_blob_gas.v),
                 parent_beacon_block_root |-> beacon_root.v,
                 requests_hash |-> requests.v])

\* A plausible slip: the error of a query without rows passed on.
QueryReturnedNoRows_propagated == Err

\* query_row's `Err(e) => match e { Error::QueryReturnedNoRows => Ok(None),
\* .. }` (db.rs 84-87, 116-119, 137-140, 202-205).
QueryReturnedNoRows == Ok(None)

\* query_row's `Ok(t) => Ok(Some(t?))`.
Found(decoded) == IF decoded.res = "Ok" THEN Ok(Some(decoded.v)) ELSE decoded

\* The rows of a table that satisfy a condition, in rowid order.
RECURSIVE SelectWhere(_, _, _)
SelectWhere(table, col, val) ==
    IF table = << >> THEN << >>
    ELSE IF Head(table)[col] = val
         THEN <<Head(table)>> \o SelectWhere(Tail(table), col, val)
         ELSE SelectWhere(Tail(table), col, val)

\* db.rs 79: "SELECT * FROM block_headers ORDER BY number DESC"; query_row
\* takes the first row of the result.  SQL leaves the order of rows with
\* equal numbers open, so each of them may come first.
LatestRows(headers) ==
    {i \in DOMAIN headers :
        \A j \in DOMAIN headers : headers[j].number.v <= headers[i].number.v}

\* Database::latest_block_header (db.rs 77-89): the results it may return.
latest_block_header(headers) ==
    IF headers = << >> THEN {QueryReturnedNoRows}
    ELSE {Found(row_to_header(headers[i])) : i \in LatestRows(headers)}

\* Database::header_by_hash (db.rs 101-121).
header_by_hash(headers, hash) ==
    LET rows == SelectWhere(headers, "hash", HexString(hash))
    IN  IF rows = << >> THEN QueryReturnedNoRows
        ELSE Found(row_to_header(rows[1]))

\* A plausible slip: the query taking the row written last.
header_by_number_last(headers, number) ==
    LET rows == SelectWhere(headers, "number", SqlInt(number))
    IN  IF rows = << >> THEN QueryReturnedNoRows
        ELSE Found(row_to_header(rows[Len(rows)]))

\* Database::header_by_number (db.rs 125-142).
header_by_number(headers, number) ==
    LET rows == SelectWhere(headers, "number", SqlInt(number))
    IN  IF rows = << >> THEN QueryReturnedNoRows
        ELSE Found(row_to_header(rows[1]))

\* query_and_then(..).collect::<Result<Vec<_>>>(): the rows decoded in
\* order; the first that fails to decode is the result.
RECURSIVE Collect(_)
Collect(rows) ==
    IF rows = << >> THEN Ok(<< >>)
    ELSE LET first == row_to_transaction(Head(rows))
             rest == Collect(Tail(rows))
         IN  IF first.res # "Ok" THEN first
             ELSE IF rest.res # "Ok" THEN rest
             ELSE Ok(<<first.v>> \o rest.v)

\* Database::transactions_by_block_hash (db.rs 229-242).
transactions_by_block_hash(txs, hash) ==
    Collect(SelectWhere(txs, "block_hash", HexString(hash)))

\* db.rs 255-264: "SELECT hash FROM block_headers WHERE number = ?", the
\* first row of the result unwrapped and its text parsed.
HashByNumber(headers, number) ==
    LET rows == SelectWhere(headers, "number", SqlInt(number))
        hash == GetHex(rows[1].hash)
    IN  IF rows = << >> THEN Panic
        ELSE IF hash.res = "Err" THEN Err
        ELSE Ok(hash.v)

\* Database::transactions_by_block_number (db.rs 250-273): the hash of the
\* first header with the number (`.next().unwrap()` panics when there is
\* none), then the transactions under that hash.
transactions_by_block_number(headers, txs, number) ==
    LET hash == HashByNumber(headers, number)
    IN  IF hash.res # "Ok" THEN hash
        ELSE Collect(SelectWhere(txs, "block_hash", HexString(hash.v)))

\* Block::new(header, BlockTransactions::Full(transactions)).
Block(header, txs) == [header |-> header, transactions |-> txs]

\* Database::block_by_hash (db.rs 145-159).
block_by_hash(headers, txs, hash) ==
    LET header == header_by_hash(headers, hash)
        body == transactions_by_block_hash(txs, hash)
    IN  IF header.res # "Ok" THEN header
        ELSE IF ~IsSome(header.v) THEN Ok(None)
        ELSE IF body.res # "Ok" THEN body
        ELSE Ok(Some(Block(Unwrap(header.v), body.v)))

\* Database::block_by_number (db.rs 162-176).
block_by_number(headers, txs, number) ==
    LET header == header_by_number(headers, number)
        body == transactions_by_block_number(headers, txs, number)
    IN  IF header.res # "Ok" THEN header
        ELSE IF ~IsSome(header.v) THEN Ok(None)
        ELSE IF body.res # "Ok" THEN body
        ELSE Ok(Some(Block(Unwrap(header.v), body.v)))

\* Database::latest_block (db.rs 92-97): the results it may return when no
\* write comes between its two queries.
latest_block(headers, txs) ==
    {IF latest.res = "Ok" /\ IsSome(latest.v)
     THEN block_by_hash(headers, txs, Unwrap(latest.v).hash)
     ELSE latest : latest \in latest_block_header(headers)}

\* Database::transaction (db.rs 191-207).
transaction(txs, hash) ==
    LET rows == SelectWhere(txs, "hash", HexString(hash))
    IN  IF rows = << >> THEN QueryReturnedNoRows
        ELSE Found(row_to_transaction(rows[1]))

(***************************************************************************)
(* Writes: Database::add_block and Database::add_block_header              *)
(***************************************************************************)

\* Bound: the number of write calls made to one store.
MaxWrites == 2

BlockHashes == {1, 2}
BlockNumbers == {100, 101}

\* The transactions a block of the model may carry, by kind.  "orphan" is
\* a transaction without its position (as a pending transaction is), which
\* add_transaction rejects; "wide" has a fee above 2^64.
BlockTransaction(kind, bhash, bnum, idx) ==
    LET T(ty, fee, position) ==
            Transaction(ty, 10 * bhash + idx, Some(W(0, 1)), Call(2),
                        W(0, 5), fee, W(0, 2), Some(bhash),
                        Some(W(0, bnum)), position)
    IN  CASE kind = "legacy" -> T(0, W(0, 5), Some(W(0, idx)))
          [] kind = "dynamic" -> T(2, W(0, 30), Some(W(0, idx)))
          [] kind = "delegation" -> T(4, W(0, 30), Some(W(0, idx)))
          [] kind = "wide" -> T(2, W(2, 30), Some(W(0, idx)))
          [] kind = "orphan" -> T(0, W(0, 5), None)

MkBlock(hash, number, kinds) ==
    Block(Header(hash, number),
          [i \in DOMAIN kinds |->
              BlockTransaction(kinds[i], hash, number, i - 1)])

Bodies ==
    {<< >>, <<"legacy">>, <<"dynamic">>, <<"legacy", "dynamic">>,
     <<"delegation">>, <<"wide">>, <<"legacy", "orphan">>,
     <<"legacy", "delegation">>}

Blocks ==
    {MkBlock(h, n, k) : h \in BlockHashes, n \in BlockNumbers, k \in Bodies}

WIdle == [pc |-> "idle", op |-> "none", block |-> None, i |-> 0,
          res |-> "none"]

\* Database::transact (db.rs 494-506): the pooled connection, the
\* transaction, the statement and the commit may each fail (pool timeout,
\* SQLITE_BUSY, I/O); then nothing is written.
TransactOutcomes == {"Ok", "Err"}

\* A plausible slip: INSERT OR REPLACE under a key on the number.
InsertHeader_or_replace(headers, row) ==
    SelectSeq(headers, LAMBDA r : r.number # row.number) \o <<row>>

\* db.rs 391: "INSERT INTO block_headers": a new row after the others; the
\* table has no key, so no row is replaced or refused.
InsertHeader(headers, row) == Append(headers, row)

\* A plausible slip: the result of add_block_header dropped (`let _ =`).
HeaderWritten_unchecked(outcome) == TRUE

\* db.rs 380: `self.add_block_header(&block.header)?`: add_block goes on
\* to the transactions only when the header insert returned Ok.
HeaderWritten(outcome) == outcome = "Ok"

\* A plausible slip: CREATE TABLE without IF NOT EXISTS.
CreateTableIfNotExists_unconditional(table) == Err

\* db.rs 511, 537: "CREATE TABLE IF NOT EXISTS" on a table that exists
\* does nothing and succeeds.
CreateTableIfNotExists(table) == Ok(table)

\* Database::new (db.rs 54-74) on the location of the store, which is
\* initialised: a new pool, and initialise() runs both CREATE TABLE IF NOT
\* EXISTS statements in one transaction.  (Location::Memory names a new
\* store with every call; the store at hand is then not opened at all.)
DatabaseNew ==
    /\ w.pc = "idle"
    /\ LET headers == CreateTableIfNotExists(block_headers)
           txs == CreateTableIfNotExists(transactions)
           ok == headers.res = "Ok" /\ txs.res = "Ok"
       IN  /\ block_headers' = IF ok THEN headers.v ELSE block_headers
           /\ transactions' = IF ok THEN txs.v ELSE transactions
           /\ w' = [pc |-> "idle", op |-> "new", block |-> None, i |-> 0,
                    res |-> IF ok THEN "Ok" ELSE "Err"]
    /\ UNCHANGED nwrites

\* Database::add_block_header called on its own (db.rs 389-471).
AddBlockHeader(header) ==
    /\ w.pc = "idle"
    /\ nwrites < MaxWrites
    /\ nwrites' = nwrites + 1
    /\ \E outcome \in TransactOutcomes :
          /\ block_headers' =
                IF outcome = "Ok"
                THEN InsertHeader(block_headers, add_block_header(header))
                ELSE block_headers
          /\ w' = [pc |-> "idle", op |-> "add_block_header",
                   block |-> Some(Block(header, << >>)), i |-> 0,
                   res |-> outcome]
    /\ UNCHANGED transactions

\* Database::add_block, line 380: the header is inserted and committed in
\* a transaction of its own.  With no transactions to add the call is over.
AddBlockBegin(block) ==
    /\ w.pc = "idle"
    /\ nwrites < MaxWrites
    /\ nwrites' = nwrites + 1
    /\ \E outcome \in TransactOutcomes :
          /\ block_headers' =
                IF outcome = "Ok"
                THEN InsertHeader(block_headers,
                                  add_block_header(block.header))
                ELSE block_headers
          /\ w' = [pc |-> IF HeaderWritten(outcome)
                             /\ block.transactions # << >>
                          THEN "txs" ELSE "idle",
                   op |-> "add_block", block |-> Some(block),
                   i |-> IF HeaderWritten(outcome) THEN 1 ELSE 0,
                   res |-> IF ~HeaderWritten(outcome) THEN "Err"
                           ELSE IF block.transactions = << >> THEN "Ok"
                           ELSE "none"]
    /\ UNCHANGED transactions

\* A plausible slip: the transactions taken from the back of the vector.
NextTransaction_reversed(txs, i) == txs[Len(txs) + 1 - i]

\* db.rs 373-375: transactions.iter().try_for_each(..) takes the
\* transactions in the order of the vector; this is the i-th.
NextTransaction(txs, i) == txs[i]

\* Database::add_transactions (db.rs 369-376), one turn of try_for_each:
\* add_transaction inserts and commits one row; the first failure ends
\* add_block with the error, and the last success with Ok.
AddTransactionsStep ==
    /\ w.pc = "txs"
    /\ LET block == Unwrap(w.block)
           row == add_transaction(NextTransaction(block.transactions, w.i))
       IN  \E outcome \in TransactOutcomes :
              IF outcome = "Ok" /\ row.res = "Ok"
              THEN /\ transactions' = Append(transactions, row.v)
                   /\ w' = IF w.i = Len(block.transactions)
                           THEN [w EXCEPT !.pc = "idle", !.res = "Ok"]
                           ELSE [w EXCEPT !.i = w.i + 1]
              ELSE /\ transactions' = transactions
                   /\ w' = [w EXCEPT !.pc = "idle", !.res = "Err"]
    /\ UNCHANGED <<block_headers, nwrites>>

(***************************************************************************)
(* Reader threads: Database::latest_block and Database::block_by_hash.     *)
(* Each query is one SQL statement on a pooled connection of its own, so   *)
(* a write may be committed between the queries of one call.               *)
(***************************************************************************)

Readers == {"r1", "r2"}

RdIdle == [pc |-> "idle", op |-> "none", hash |-> 0, number |-> 0,
           header |-> None, res |-> None]

\* What header_by_hash's answer makes of a reader inside block_by_hash
\* (db.rs 151-158): on to the transactions, or done with None or Err.
AfterHeaderByHash(op, hash, found) ==
    IF found.res = "Ok" /\ IsSome(found.v)
    THEN [pc |-> "transactions", op |-> op, hash |-> hash, number |-> 0,
          header |-> found.v, res |-> None]
    ELSE [pc |-> "done", op |-> op, hash |-> hash, number |-> 0,
          header |-> None, res |-> Some(found)]

\* Database::latest_block, line 93: the latest_block_header query.
ReadLatestBlock(r) ==
    /\ rd[r].pc \in {"idle", "done"}
    /\ \E latest \in latest_block_header(block_headers) :
          rd' = [rd EXCEPT ![r] =
                    IF latest.res = "Ok" /\ IsSome(latest.v)
                    THEN [pc |-> "header_by_hash", op |-> "latest_block",
                          hash |-> Unwrap(latest.v).hash, number |-> 0,
                          header |-> None, res |-> None]
                    ELSE [pc |-> "done", op |-> "latest_block", hash |-> 0,
                          number |-> 0, header |-> None,
                          res |-> Some(latest)]]

\* Database::latest_block, line 94: block_by_hash of the latest header's
\* hash begins with the header_by_hash query.
ReadHeaderByHash(r) ==
    /\ rd[r].pc = "header_by_hash"
    /\ rd' = [rd EXCEPT ![r] =
                 AfterHeaderByHash(rd[r].op, rd[r].hash,
                                   header_by_hash(block_headers, rd[r].hash))]

\* Database::block_by_hash called directly: the header_by_hash query.
ReadBlockByHash(r, hash) ==
    /\ rd[r].pc \in {"idle", "done"}
    /\ rd' = [rd EXCEPT ![r] =
                 AfterHeaderByHash("block_by_hash", hash,
                                   header_by_hash(block_headers, hash))]

\* Database::block_by_hash, line 155: the transactions_by_block_hash query
\* and the result of the call.
ReadTransactionsByBlockHash(r) ==
    /\ rd[r].pc = "transactions"
    /\ LET body == transactions_by_block_hash(transactions, rd[r].hash)
       IN  rd' = [rd EXCEPT ![r] =
                     [@ EXCEPT !.pc = "done",
                               !.res = Some(IF body.res = "Ok"
                                            THEN Ok(Some(Block(
                                                     Unwrap(rd[r].header),
                                                     body.v)))
                                            ELSE body)]]

(***************************************************************************)
(* The client: AnyClient::new (client.rs 55-66)                            *)
(***************************************************************************)

\* A parsed Url: its scheme, its host when the URL has an authority ("//")
\* and its path.  Url::parse gives every ws, wss, http and https URL a
\* host, and "ipc:/geth.ipc" none.
Url(scheme, host, path) == [scheme |-> scheme, host |-> host, path |-> path]

\* Url::to_string: the serialisation, in pieces.
UrlToString(url) ==
    <<url.scheme, ":">>
        \o (IF IsSome(url.host) THEN <<"//", Unwrap(url.host)>> ELSE << >>)
        \o <<url.path>>

\* str::strip_prefix: the rest of the string when it begins with the
\* prefix, and None when it does not.
StripPrefix(str, prefix) ==
    IF Len(str) >= Len(prefix) /\ SubSeq(str, 1, Len(prefix)) = prefix
    THEN Some(SubSeq(str, Len(prefix) + 1, Len(str)))
    ELSE None

\* No client is being made.
ClientOff == [pc |-> "off", url |-> None, connects |-> 0, queries |-> 0,
              res |-> "none", v |-> None]

\* AnyClient::new has returned or panicked.
ClientDone(client, res, v) ==
    [client EXCEPT !.pc = "done", !.res = res, !.v = v]

\* client.rs 56-65: the match on url.scheme().  "ws" and "wss" go to
\* WsClient::new with the URL; "ipc" goes to IpcClient::new with the URL's
\* text less "ipc://", which is unwrapped; any other scheme is the error.
AnyClientNew ==
    /\ svc.client.pc = "new"
    /\ LET url == Unwrap(svc.client.url)
           path == StripPrefix(UrlToString(url), <<"ipc", ":", "//">>)
       IN  svc' = [svc EXCEPT !.client =
                 IF url.scheme \in {"ws", "wss"}
                 THEN [@ EXCEPT !.pc = "WsClient::new"]
                 ELSE IF url.scheme = "ipc"
                 THEN IF IsSome(path)
                      THEN [@ EXCEPT !.pc = "IpcClient::new"]
                      ELSE ClientDone(@, "Panic", None)
                 ELSE ClientDone(@, "Err", None)]
    /\ UNCHANGED <<block_headers, transactions, w, nwrites, rd, codec, main,
                   app>>

\* client.rs 140-144 and 232-233: on_ws(..).await? and on_ipc(..).await?:
\* one attempt to connect, whose error is returned.
ClientConnect ==
    /\ svc.client.pc \in {"WsClient::new", "IpcClient::new"}
    /\ \E outcome \in {"Ok", "Err"} :
          svc' = [svc EXCEPT !.client =
                    IF outcome = "Ok"
                    THEN [@ EXCEPT !.pc = "get_chain_id",
                                   !.connects = @ + 1]
                    ELSE [ClientDone(@, "Err", None) EXCEPT
                             !.connects = @ + 1]]
    /\ UNCHANGED <<block_headers, transactions, w, nwrites, rd, codec, main,
                   app>>

\* client.rs 145-154 and 234-243: provider.get_chain_id().await?: one
\* query, whose error is returned; then the client is made.
ClientGetChainId ==
    /\ svc.client.pc = "get_chain_id"
    /\ \E outcome \in {"Ok", "Err"} :
          svc' = [svc EXCEPT !.client =
                    IF outcome = "Ok"
                    THEN [ClientDone(@, "Ok", @.url) EXCEPT
                             !.queries = @ + 1]
                    ELSE [ClientDone(@, "Err", None) EXCEPT
                             !.queries = @ + 1]]
    /\ UNCHANGED <<block_headers, transactions, w, nwrites, rd, codec, main,
                   app>>

\* The endpoints given to AnyClient::new.
Urls ==
    {Url(s, Some(h), p) : s \in {"ws", "wss", "http", "https"},
                          h \in {"localhost", "node"},
                          p \in {"/", "/rpc", "/geth.ipc"}}
      \cup {Url("ipc", h, p) : h \in {None, Some(""), Some("node")},
                               p \in {"/", "/rpc", "/geth.ipc"}}
      \cup {Url("file", Some(""), p) : p \in {"/", "/rpc", "/geth.ipc"}}

\* Database::block_by_number, line 168: the header_by_number query.  With
\* no header the call is over; with one, transactions_by_block_number is
\* called with the number.
ReadBlockByNumber(r, number) ==
    /\ rd[r].pc \in {"idle", "done"}
    /\ LET found == header_by_number(block_headers, number)
       IN  rd' = [rd EXCEPT ![r] =
                 IF found.res = "Ok" /\ IsSome(found.v)
                 THEN [RdIdle EXCEPT !.pc = "hash_by_number",
                                     !.op = "block_by_number",
                                     !.number = number, !.header = found.v]
                 ELSE [RdIdle EXCEPT !.pc = "done",
                                     !.op = "block_by_number",
                                     !.number = number,
                                     !.res = Some(found)]]

\* Database::transactions_by_block_number, lines 255-264: the query for
\* the hash under the number.
ReadHashByNumber(r) ==
    /\ rd[r].pc = "hash_by_number"
    /\ LET hash == HashByNumber(block_headers, rd[r].number)
       IN  rd' = [rd EXCEPT ![r] =
                 IF hash.res = "Ok"
                 THEN [@ EXCEPT !.pc = "transactions_by_hash",
                                !.hash = hash.v]
                 ELSE [@ EXCEPT !.pc = "done", !.res = Some(hash)]]

\* Database::transactions_by_block_number, lines 265-272: the query for
\* the transactions under that hash, and the result of block_by_number.
ReadTransactionsByNumber(r) ==
    /\ rd[r].pc = "transactions_by_hash"
    /\ LET body == Collect(SelectWhere(transactions, "block_hash",
                                       HexString(rd[r].hash)))
       IN  rd' = [rd EXCEPT ![r] =
                     [@ EXCEPT !.pc = "done",
                               !.res = Some(IF body.res = "Ok"
                                            THEN Ok(Some(Block(
                                                     Unwrap(rd[r].header),
                                                     body.v)))
                                            ELSE body)]]

(***************************************************************************)
(* The process: main() seeds the store, spawns the indexing service and    *)
(* runs the display loop (or, headless, joins the service).  The seed and  *)
(* the service are the only writers and never write at the same time, so   *)
(* both use the writer w.                                                  *)
(***************************************************************************)

\* The blocks the node may serve: full blocks, every transaction with its
\* block hash, number and index.
NodeBlocks ==
    {MkBlock(h, n, k) :
        h \in BlockHashes, n \in BlockNumbers,
        k \in {<< >>, <<"legacy">>, <<"legacy", "dynamic">>,
               <<"delegation">>}}

\* alloy's BlockHashOrNumber, the type of the block argument (cli.rs 22).
Hash(h) == [kind |-> "Hash", v |-> h]
Number(n) == [kind |-> "Number", v |-> n]

\* Whether a block is the one a BlockHashOrNumber names.
Names(id, block) ==
    IF id.kind = "Hash" THEN block.header.hash = id.v
    ELSE block.header.number = W(0, id.v)

\* Whether a block holds the transaction with a hash.
Holds(block, tx_hash) ==
    \E i \in DOMAIN block.transactions : block.transactions[i].hash = tx_hash

\* main() and its options: headless, and the block and transaction
\* arguments (cli.rs 18-25).
MainOff == [pc |-> "off", headless |-> FALSE, block |-> None,
            transaction |-> None, seed |-> None, result |-> "none"]

\* populate_db, main.rs 51-66: the block the seed asks the node for.  With
\* the block argument alone it is the block named; with the transaction
\* argument alone, the block of that transaction; in every other case,
\* both arguments given included, the node's latest block.
SeedBlocks(perhaps_block, perhaps_tx) ==
    IF IsSome(perhaps_block) /\ ~IsSome(perhaps_tx)
    THEN {block \in NodeBlocks : Names(Unwrap(perhaps_block), block)}
    ELSE IF ~IsSome(perhaps_block) /\ IsSome(perhaps_tx)
    THEN {block \in NodeBlocks : Holds(block, Unwrap(perhaps_tx))}
    ELSE NodeBlocks

\* The service thread.  stream holds the hashes of the headers the live
\* subscription has delivered and next() has not taken; answer is the
\* node's answer to the last get_block_by_hash.
SvcOff == [pc |-> "off", block |-> None, stream |-> << >>,
           answer |-> "none", rpc_requests |-> 0,
           failed_rpc_requests |-> 0, blocks_added |-> 0,
           result |-> "none", client |-> ClientOff]

\* A plausible slip: the result of populate_db dropped (`let _ =`).
SeedSucceeded_ignored == w.pc = "idle"

\* main.rs 92-96: the `?` on populate_db's result, which is add_block's.
SeedSucceeded == w.pc = "idle" /\ w.res = "Ok"

\* populate_db (main.rs 45-67): connect, fetch the seed block, and call
\* add_block on it; a failed connection or fetch ends main with the error,
\* and a panic (AnyClient::new's, client.rs 60, or the unwrap of a pending
\* transaction's block hash, main.rs 58) ends it with the panic.
MainPopulateDb ==
    /\ main.pc = "populate_db"
    /\ \/ /\ \E result \in {"Err", "Panic"} :
                main' = [main EXCEPT !.pc = "exit", !.result = result]
          /\ UNCHANGED <<block_headers, transactions, w, nwrites>>
       \/ \E block \in SeedBlocks(main.block, main.transaction) :
             /\ AddBlockBegin(block)
             /\ main' = [main EXCEPT !.pc = "seeding", !.seed = Some(block)]
    /\ UNCHANGED <<rd, codec, svc, app>>

\* populate_db's add_block, continued: the seed block's transactions.
MainSeedTransactions ==
    /\ main.pc = "seeding"
    /\ AddTransactionsStep
    /\ UNCHANGED <<rd, codec, main, svc, app>>

\* main.rs 96: a failed seed write ends main with the error.
MainSeedFailed ==
    /\ main.pc = "seeding"
    /\ w.pc = "idle"
    /\ w.res = "Err"
    /\ main' = [main EXCEPT !.pc = "exit", !.result = "Err"]
    /\ UNCHANGED <<block_headers, transactions, w, nwrites, rd, codec, svc,
                   app>>

\* main.rs 98-106: BlockchainService::spawn, then the display loop or the
\* join.
MainSpawn ==
    /\ main.pc = "seeding"
    /\ SeedSucceeded
    /\ svc' = [svc EXCEPT !.pc = "connect"]
    /\ main' = [main EXCEPT !.pc = IF main.headless THEN "join" ELSE "run"]
    /\ UNCHANGED <<block_headers, transactions, w, nwrites, rd, codec, app>>

\* main.rs 106-107: headless, main waits for the service thread to end.
MainJoin ==
    /\ main.pc = "join"
    /\ svc.pc = "stopped"
    /\ main' = [main EXCEPT !.pc = "exit", !.result = "Ok"]
    /\ UNCHANGED <<block_headers, transactions, w, nwrites, rd, codec, svc,
                   app>>

\* The service thread runs as long as the process does.
ProcessAlive == main.pc # "exit"

\* blockchain.rs 47-70: block_on returns the result; the subscription is
\* dropped with the future.
SvcStopped(result) ==
    [svc EXCEPT !.pc = "stopped", !.result = result, !.stream = << >>]

\* blockchain.rs 48-50: AnyClient::new(rpc).await?
SvcConnect ==
    /\ ProcessAlive
    /\ svc.pc = "connect"
    /\ \/ svc' = [svc EXCEPT !.pc = "subscribe"]
       \/ svc' = SvcStopped("Err")
    /\ UNCHANGED <<block_headers, transactions, w, nwrites, rd, codec, main,
                   app>>

\* blockchain.rs 69: the while-let ends when next() returns None, and the
\* closure returns Ok(this).
StreamEnded == "Ok"

\* blockchain.rs 51-53: the condition of the while-let makes a new
\* subscription on every turn and awaits its first header: the
\* subscription fails, the stream has ended, or the node announces a block.
SvcNextHeader ==
    /\ ProcessAlive
    /\ svc.pc = "subscribe"
    /\ \/ svc' = SvcStopped("Err")
       \/ svc' = SvcStopped(StreamEnded)
       \/ /\ nwrites < MaxWrites
          /\ \E block \in NodeBlocks :
                svc' = [svc EXCEPT !.pc = "fetch", !.block = Some(block),
                                   !.stream = << >>]
    /\ UNCHANGED <<block_headers, transactions, w, nwrites, rd, codec, main,
                   app>>

\* A plausible slip: the answer "no such block" counted as a failed request.
NoSuchBlock_counted(failed_rpc_requests) == failed_rpc_requests + 1

\* blockchain.rs 61-62: inspect_err counts an error answer only; on the
\* answer None `.ok_or(eyre!("No such block"))?` leaves the counter alone.
NoSuchBlock(failed_rpc_requests) == failed_rpc_requests

\* blockchain.rs 54-63: count the request, fetch the block by hash, and
\* call add_block on it.  An error answer is counted as a failed request;
\* the answer that there is no such block is not.
SvcFetch ==
    /\ ProcessAlive
    /\ svc.pc = "fetch"
    /\ \/ /\ svc' = [SvcStopped("Err") EXCEPT
                        !.answer = "Err",
                        !.rpc_requests = @ + 1,
                        !.failed_rpc_requests = @ + 1]
          /\ UNCHANGED <<block_headers, transactions, w, nwrites>>
       \/ /\ svc' = [SvcStopped("Err") EXCEPT
                        !.answer = "None",
                        !.rpc_requests = @ + 1,
                        !.failed_rpc_requests = NoSuchBlock(@)]
          /\ UNCHANGED <<block_headers, transactions, w, nwrites>>
       \/ /\ AddBlockBegin(Unwrap(svc.block))
          /\ svc' = [svc EXCEPT !.pc = "write", !.answer = "Some",
                                !.rpc_requests = @ + 1]
    /\ UNCHANGED <<rd, codec, main, app>>

\* The service's add_block, continued: the block's transactions.
SvcAddTransactions ==
    /\ ProcessAlive
    /\ svc.pc = "write"
    /\ AddTransactionsStep
    /\ UNCHANGED <<rd, codec, main, svc, app>>

\* blockchain.rs 63-68: add_block has returned: an error ends the loop,
\* success is counted and the loop goes on to its next turn; the
\* subscription of this turn is dropped with what it holds.
SvcWritten ==
    /\ ProcessAlive
    /\ svc.pc = "write"
    /\ w.pc = "idle"
    /\ svc' = IF w.res = "Ok"
              THEN [svc EXCEPT !.pc = "subscribe", !.blocks_added = @ + 1,
                               !.stream = << >>]
              ELSE SvcStopped("Err")
    /\ UNCHANGED <<block_headers, transactions, w, nwrites, rd, codec, main,
                   app>>

\* Bound: the headers a subscription holds undelivered to next().
MaxPending == 1

\* The node announces a block while the loop is in its body: the header
\* reaches the subscription made for this turn (the temporary of the
\* while-let condition lives to the end of the body, blockchain.rs 51-68).
NodeAnnounce ==
    /\ ProcessAlive
    /\ svc.pc \in {"fetch", "write"}
    /\ Len(svc.stream) < MaxPending
    /\ \E hash \in BlockHashes :
          svc' = [svc EXCEPT !.stream = Append(@, hash)]
    /\ UNCHANGED <<block_headers, transactions, w, nwrites, rd, codec, main,
                   app>>

(***************************************************************************)
(* The display: StatefulList (ui.rs 153-194) and App (ui/app.rs)           *)
(***************************************************************************)

\* usize values.  A value is kept as the integer that has its bits in
\* two's complement: n stands for n, and -k for 2^64 - k, so that the
\* wrapping of a release build is plain integer arithmetic here.
UsizeGe(a, b) == IF (a < 0) = (b < 0) THEN a >= b ELSE a < 0

\* a - b on usize, for b <= a or a < b <= a + 2^63.  Below zero the build
\* decides: with overflow checks (the dev profile) the subtraction panics,
\* without them (the release profile) it wraps.
UsizeSub(a, b, overflow_checks) ==
    IF a >= 0 /\ a - b < 0 /\ overflow_checks THEN Panic ELSE Ok(a - b)

\* ui.rs 160-165: StatefulList::with_items; ListState::default() has no
\* selection.
with_items(items) == [state |-> None, items |-> items]

\* Vec::get: the item at the offset, if there is one.
Get(items, offset) ==
    IF offset >= 0 /\ offset < Len(items) THEN Some(items[offset + 1])
    ELSE None

\* ui.rs 167-179: StatefulList::next.
StatefulListNext(list, overflow_checks) ==
    IF ~IsSome(list.state) THEN Ok([list EXCEPT !.state = Some(0)])
    ELSE LET i == Unwrap(list.state)
             last == UsizeSub(Len(list.items), 1, overflow_checks)
         IN  IF last.res = "Panic" THEN Panic
             ELSE IF UsizeGe(i, last.v)
             THEN Ok([list EXCEPT !.state = Some(0)])
             ELSE Ok([list EXCEPT !.state = Some(i + 1)])

\* ui.rs 181-193: StatefulList::previous.
StatefulListPrevious(list, overflow_checks) ==
    IF ~IsSome(list.state) THEN Ok([list EXCEPT !.state = Some(0)])
    ELSE LET i == Unwrap(list.state)
             last == UsizeSub(Len(list.items), 1, overflow_checks)
         IN  IF i = 0
             THEN IF last.res = "Panic" THEN Panic
                  ELSE Ok([list EXCEPT !.state = Some(last.v)])
             ELSE Ok([list EXCEPT !.state = Some(i - 1)])

\* No App yet.  The fields are those of the struct (ui/app.rs 42-50); pc
\* is the position of ui::run.
AppOff == [pc |-> "off", should_quit |-> FALSE, view |-> "Default",
           block_headers |-> with_items(<< >>),
           transactions |-> with_items(<< >>),
           selected_block |-> None, selected_transaction |-> None]

\* ui/app.rs 53-67: App::new.
AppNew(selected_block, selected_transaction) ==
    [AppOff EXCEPT !.pc = "loop",
                   !.selected_block = Some(selected_block),
                   !.selected_transaction = Some(selected_transaction)]

\* The App after a panic of its thread.
AppPanic(a) == [a EXCEPT !.pc = "panic"]

\* ui/app.rs 514-526.
get_selected_header(a) ==
    IF IsSome(a.block_headers.state)
    THEN Get(a.block_headers.items, Unwrap(a.block_headers.state))
    ELSE None

get_selected_transaction(a) ==
    IF IsSome(a.transactions.state)
    THEN Get(a.transactions.items, Unwrap(a.transactions.state))
    ELSE None

\* ui/app.rs 69-75.
on_esc(a) ==
    CASE a.view = "Default" -> [a EXCEPT !.should_quit = TRUE]
      [] a.view = "Block" -> [a EXCEPT !.view = "Default"]
      [] a.view = "Transaction" -> [a EXCEPT !.view = "Block"]

\* ui/app.rs 77-111: 'q' asks to quit; 'e' in the block and transaction
\* views opens a browser, and the result of webbrowser::open is unwrapped.
on_key(a, c, opened) ==
    LET quit == IF c = "q" THEN [a EXCEPT !.should_quit = TRUE] ELSE a
    IN  IF c = "e" /\ a.view \in {"Block", "Transaction"} /\ ~opened
        THEN AppPanic(quit)
        ELSE quit

\* ui/app.rs 113-131: with a header selected the view is set to Block
\* first, whatever it was; then the match runs on the view so set.
on_enter(a) ==
    LET first == IF IsSome(get_selected_header(a))
                 THEN [a EXCEPT !.view = "Block"] ELSE a
    IN  CASE first.view = "Default" ->
                 IF IsSome(get_selected_header(first))
                 THEN [first EXCEPT !.view = "Block"] ELSE first
          [] first.view = "Block" ->
                 IF IsSome(get_selected_transaction(first))
                 THEN [first EXCEPT !.view = "Transaction"] ELSE first
          [] OTHER -> first

\* The App with the result of a call on one of its lists.
WithList(a, field, list) ==
    IF list.res = "Panic" THEN AppPanic(a)
    ELSE [a EXCEPT ![field] = list.v]

\* ui/app.rs 133-139.
on_up(a, overflow_checks) ==
    CASE a.view = "Default" ->
             WithList(a, "block_headers",
                      StatefulListPrevious(a.block_headers, overflow_checks))
      [] a.view = "Block" ->
             WithList(a, "transactions",
                      StatefulListPrevious(a.transactions, overflow_checks))
      [] a.view = "Transaction" -> a

\* ui/app.rs 141-147.
on_down(a, overflow_checks) ==
    CASE a.view = "Default" ->
             WithList(a, "block_headers",
                      StatefulListNext(a.block_headers, overflow_checks))
      [] a.view = "Block" ->
             WithList(a, "transactions",
                      StatefulListNext(a.transactions, overflow_checks))
      [] a.view = "Transaction" -> a

\* A plausible slip: the latest header pushed without the contains test.
Contains_skipped(items, x) == FALSE

\* ui/app.rs 155: self.block_headers.items.contains(&latest_header)
Contains(items, x) == \E i \in DOMAIN items : items[i] = x

\* ui/app.rs 149-181: App::on_tick on a store read at one moment, given
\* the answer of latest_block_header.  The latest header is pushed unless
\* the list holds it; out of the block view the block of the selected
\* header is read anew and its transactions become the transaction list,
\* without a selection; out of the transaction view the selected
\* transaction is taken over.  No header, or an error of the store, panics.
on_tick(a, latest, headers, txs) ==
    IF latest.res # "Ok" \/ ~IsSome(latest.v) THEN AppPanic(a)
    ELSE
    LET push(latest_header) ==
            IF Contains(a.block_headers.items, latest_header) THEN a
            ELSE [a EXCEPT !.block_headers.items = Append(@, latest_header)]
        load(pushed, found) ==
            IF found.res # "Ok" THEN AppPanic(pushed)
            ELSE IF IsSome(found.v)
            THEN [pushed EXCEPT
                     !.selected_block = found.v,
                     !.transactions =
                         with_items(Unwrap(found.v).transactions)]
            ELSE pushed
        block_of(pushed, selected_header) ==
            IF IsSome(selected_header) /\ pushed.view # "Block"
            THEN load(pushed, block_by_hash(headers, txs,
                                            Unwrap(selected_header).hash))
            ELSE pushed
        with_selected_block(pushed) ==
            block_of(pushed, get_selected_header(pushed))
        transaction_of(loaded, selected_tx) ==
            IF IsSome(selected_tx) /\ loaded.view # "Transaction"
            THEN [loaded EXCEPT !.selected_transaction = selected_tx]
            ELSE loaded
        with_selected_transaction(loaded) ==
            transaction_of(loaded, get_selected_transaction(loaded))
    IN  with_selected_transaction(with_selected_block(push(Unwrap(latest.v))))

\* ui::run, lines 27-50 (ui/mod.rs), on a store read at one moment, given
\* the answer of latest_block: the latest block must exist and hold a
\* transaction, or the thread panics; the block argument, or else the
\* transaction argument, is looked up and unwrapped; an error of the store
\* is returned.
run(latest, headers, txs, block, tx) ==
    IF latest.res = "Err" THEN Err
    ELSE IF latest.res = "Panic" \/ ~IsSome(latest.v)
            \/ Unwrap(latest.v).transactions = << >>
    THEN Panic
    ELSE
    LET unwrapped(found) ==
            IF found.res # "Ok" THEN found
            ELSE IF ~IsSome(found.v) THEN Panic
            ELSE Ok(Unwrap(found.v))
        hash_of(by_number) ==
            IF by_number.res # "Ok" THEN by_number
            ELSE Ok(by_number.v.header.hash)
        specified_block_hash(id) ==
            IF id.kind = "Hash" THEN Ok(id.v)
            ELSE hash_of(unwrapped(block_by_number(headers, txs, id.v)))
        in_block(a, by_hash) ==
            IF by_hash.res # "Ok" THEN by_hash
            ELSE Ok([a EXCEPT !.view = "Block",
                              !.selected_block = Some(by_hash.v)])
        specified_block(a, hash) ==
            IF hash.res # "Ok" THEN hash
            ELSE in_block(a, unwrapped(block_by_hash(headers, txs, hash.v)))
        in_transaction(a, specified_tx) ==
            IF specified_tx.res # "Ok" THEN specified_tx
            ELSE Ok([a EXCEPT !.view = "Transaction",
                              !.selected_transaction = Some(specified_tx.v)])
        started(a) ==
            IF IsSome(block)
            THEN specified_block(a, specified_block_hash(Unwrap(block)))
            ELSE IF IsSome(tx)
            THEN in_transaction(a, unwrapped(transaction(txs, Unwrap(tx))))
            ELSE Ok(a)
    IN  started(AppNew(Unwrap(latest.v), Unwrap(latest.v).transactions[1]))

\* What a step of ui::run makes of main and the App: a panic ends the
\* process, an error or should_quit (ui/mod.rs 77-79) ends main.
AppStep(a, res) ==
    /\ app' = IF res = "Panic" \/ a.pc = "panic" THEN AppPanic(a)
              ELSE IF res = "Err" \/ a.should_quit THEN [a EXCEPT !.pc = "exit"]
              ELSE a
    /\ main' = IF res = "Panic" \/ a.pc = "panic"
               THEN [main EXCEPT !.pc = "exit", !.result = "Panic"]
               ELSE IF res = "Err"
               THEN [main EXCEPT !.pc = "exit", !.result = "Err"]
               ELSE IF a.should_quit
               THEN [main EXCEPT !.pc = "exit", !.result = "Ok"]
               ELSE main
    /\ UNCHANGED <<block_headers, transactions, w, nwrites, rd, codec, svc>>

\* main.rs 101-102 and ui::run up to its loop.
AppRun ==
    /\ main.pc = "run"
    /\ app.pc = "off"
    /\ \E latest \in latest_block(block_headers, transactions) :
          LET step(started) ==
                  AppStep(IF started.res = "Ok" THEN started.v ELSE app,
                          started.res)
          IN  step(run(latest, block_headers, transactions,
                       main.block, main.transaction))

\* ui/mod.rs 81-84: a turn of the loop in which the tick is due.
AppOnTick ==
    /\ main.pc = "run"
    /\ app.pc = "loop"
    /\ \E latest \in latest_block_header(block_headers) :
          AppStep(on_tick(app, latest, block_headers, transactions), "Ok")

\* ui/mod.rs 59-79: a turn of the loop in which a key is read that asks to
\* quit ('q'); should_quit ends the loop and main.
AppQuit ==
    /\ main.pc = "run"
    /\ app.pc = "loop"
    /\ AppStep(on_key(app, "q", TRUE), "Ok")

\* Bound: how far a selection is followed beyond the ends of its list.
MaxSelected == 2

Selections(a) ==
    {Unwrap(l.state) : l \in {l \in {a.block_headers, a.transactions} :
                                 IsSome(l.state)}}

\* A key handled within the bound.
AppKey(a) ==
    /\ main.pc = "run"
    /\ app.pc = "loop"
    /\ \A i \in Selections(a) : i >= -MaxSelected /\ i <= MaxSelected
    /\ AppStep(a, "Ok")

\* ui/mod.rs 59-79: a turn of the loop in which a key is read and handled.
AppOnUp == \E overflow_checks \in BOOLEAN : AppKey(on_up(app, overflow_checks))

AppOnDown ==
    \E overflow_checks \in BOOLEAN : AppKey(on_down(app, overflow_checks))

AppOnEnter == AppKey(on_enter(app))

AppOnEsc == AppKey(on_esc(app))

AppOnKey ==
    \E c \in {"e", "x"}, opened \in BOOLEAN : AppKey(on_key(app, c, opened))

(***************************************************************************)
(* The header codec on its own: one header written with add_block_header   *)
(* and read back with header_by_hash.                                      *)
(***************************************************************************)

OptionalNumbers == {None, Some(W(0, 0)), Some(W(0, 5))}
OptionalRoots == {None, Some(0), Some(9)}

CodecHeaders ==
    {FullHeader(1, 100, base_fee, withdrawals, blob_gas, excess_blob_gas,
                beacon_root, requests) :
        base_fee \in OptionalNumbers, withdrawals \in OptionalRoots,
        blob_gas \in OptionalNumbers, excess_blob_gas \in OptionalNumbers,
        beacon_root \in OptionalRoots, requests \in OptionalRoots}

\* Database::add_block_header (db.rs 389-471) on the input header.
CodecAddBlockHeader ==
    /\ codec.pc = "write_header"
    /\ AddBlockHeader(Unwrap(codec.tx))
    /\ codec' = IF w'.res = "Ok"
                THEN [codec EXCEPT !.pc = "read_header",
                                   !.row = Some(block_headers'[1]),
                                   !.wres = Some("Ok")]
                ELSE [codec EXCEPT !.pc = "done", !.wres = Some("Err")]
    /\ UNCHANGED <<rd, main, svc, app>>

\* Database::header_by_hash (db.rs 101-121) for the header's hash.
CodecHeaderByHash ==
    /\ codec.pc = "read_header"
    /\ codec' = [codec EXCEPT !.pc = "done",
                     !.dec = Some(header_by_hash(block_headers,
                                                 Unwrap(codec.tx).hash))]
    /\ UNCHANGED <<block_headers, transactions, w, nwrites, rd, main, svc,
                   app>>

(***************************************************************************)
(* The connection pool (db.rs 54-74).  Every query and every transact      *)
(* takes a connection with conn_pool.get()? and gives it back when the     *)
(* guard is dropped.  The pool is one Arc shared by every clone of the     *)
(* Database: the readers and the writer draw on the same connections.      *)
(***************************************************************************)

\* Pool::builder() without a max_size call: the pool has r2d2's default
\* number of connections (10), however many threads use the Database.  The
\* model has one connection for each reader, so that the readers alone can
\* hold them all.
max_size == Cardinality(Readers)

\* Connections checked out of the pool.
Held ==
    Cardinality({r \in Readers : rd[r].pc = "conn"})
        + (IF w.pc = "conn" THEN 1 ELSE 0)

\* A plausible slip: a pool built without connection_timeout whose get()
\* waits until a connection is returned.
ConnectionTimeout_never(held) == FALSE

\* db.rs 58-60: connection_timeout(CONN_GET_TIMEOUT_MILLIS): a get() that
\* finds every connection checked out for that long returns an error.
ConnectionTimeout(held) == held = max_size

\* The call add_block makes after the insert at position i (0 the header,
\* i the i-th transaction): add_transaction of the next one, which fails
\* before any connection is asked for when the transaction is incomplete
\* (db.rs 290-312), or the end of the call.
PoolAfter(block, i) ==
    IF i = Len(block.transactions)
    THEN [pc |-> "idle", op |-> "add_block", block |-> Some(block),
          i |-> i, res |-> "Ok"]
    ELSE IF add_transaction(NextTransaction(block.transactions, i + 1)).res
               = "Ok"
    THEN [pc |-> "get", op |-> "add_block", block |-> Some(block),
          i |-> i + 1, res |-> "none"]
    ELSE [pc |-> "idle", op |-> "add_block", block |-> Some(block),
          i |-> i + 1, res |-> "Err"]

\* Database::add_block is called (db.rs 379-380) and reaches transact's
\* conn_pool.get() for the header (db.rs 498).
PoolAddBlock(block) ==
    /\ w.pc = "idle"
    /\ nwrites < MaxWrites
    /\ nwrites' = nwrites + 1
    /\ w' = [pc |-> "get", op |-> "add_block", block |-> Some(block),
             i |-> 0, res |-> "none"]
    /\ UNCHANGED <<block_headers, transactions, rd>>

\* db.rs 498: conn_pool.get() returns a connection to transact.
PoolWriterAcquire ==
    /\ w.pc = "get"
    /\ Held < max_size
    /\ w' = [w EXCEPT !.pc = "conn"]
    /\ UNCHANGED <<block_headers, transactions, nwrites, rd>>

\* db.rs 498: conn_pool.get()? times out: transact returns the error
\* before any statement is run, and add_block returns it (db.rs 380, 375).
PoolWriterTimeout ==
    /\ w.pc = "get"
    /\ ConnectionTimeout(Held)
    /\ w' = [w EXCEPT !.pc = "idle", !.res = "Err"]
    /\ UNCHANGED <<block_headers, transactions, nwrites, rd>>

\* db.rs 499-505: the insert is run and committed on the connection, which
\* goes back to the pool when transact returns.
PoolWriterTransact ==
    /\ w.pc = "conn"
    /\ LET block == Unwrap(w.block)
       IN  /\ IF w.i = 0
              THEN /\ block_headers' =
                         InsertHeader(block_headers,
                                      add_block_header(block.header))
                   /\ transactions' = transactions
              ELSE /\ transactions' =
                         Append(transactions,
                                add_transaction(NextTransaction(
                                    block.transactions, w.i)).v)
                   /\ block_headers' = block_headers
           /\ w' = PoolAfter(block, w.i)
    /\ UNCHANGED <<nwrites, rd>>

\* A reader calls Database::latest_block_header and reaches
\* conn_pool.get() (db.rs 78).
PoolReaderCall(r) ==
    /\ rd[r].pc \in {"idle", "done"}
    /\ rd' = [rd EXCEPT ![r] = [RdIdle EXCEPT
                                   !.pc = "get",
                                   !.op = "latest_block_header"]]
    /\ UNCHANGED <<block_headers, transactions, w, nwrites>>

\* db.rs 78: conn_pool.get() returns a connection to the reader.
PoolReaderAcquire(r) ==
    /\ rd[r].pc = "get"
    /\ Held < max_size
    /\ rd' = [rd EXCEPT ![r].pc = "conn"]
    /\ UNCHANGED <<block_headers, transactions, w, nwrites>>

\* db.rs 78: conn_pool.get()? times out and the query returns the error.
PoolReaderTimeout(r) ==
    /\ rd[r].pc = "get"
    /\ ConnectionTimeout(Held)
    /\ rd' = [rd EXCEPT ![r].pc = "done", ![r].res = Some(Err)]
    /\ UNCHANGED <<block_headers, transactions, w, nwrites>>

\* db.rs 78-88: the query runs on the connection, which goes back to the
\* pool at the end of the statement.
PoolReaderQuery(r) ==
    /\ rd[r].pc = "conn"
    /\ \E latest \in latest_block_header(block_headers) :
          rd' = [rd EXCEPT ![r].pc = "done", ![r].res = Some(latest)]
    /\ UNCHANGED <<block_headers, transactions, w, nwrites>>

(***************************************************************************)
(* Specifications                                                          *)
(***************************************************************************)

\* Database::new(Location::Memory): both tables exist and are empty.
EmptyStore ==
    /\ block_headers = << >>
    /\ transactions = << >>
    /\ w = WIdle
    /\ nwrites = 0

\* One thread using a store: any sequence of add_block and
\* add_block_header calls; the queries are read off the tables.
Init ==
    /\ EmptyStore
    /\ rd = [r \in Readers |-> RdIdle]
    /\ codec = CodecIdle
    /\ main = MainOff
    /\ svc = SvcOff
    /\ app = AppOff

StoreAddBlock ==
    /\ \E block \in Blocks : AddBlockBegin(block)
    /\ UNCHANGED <<rd, codec, main, svc, app>>

StoreAddTransactions ==
    /\ AddTransactionsStep
    /\ UNCHANGED <<rd, codec, main, svc, app>>

StoreAddBlockHeader ==
    /\ \E h \in BlockHashes, n \in BlockNumbers : AddBlockHeader(Header(h, n))
    /\ UNCHANGED <<rd, codec, main, svc, app>>

StoreOpen ==
    /\ DatabaseNew
    /\ UNCHANGED <<rd, codec, main, svc, app>>

Next ==
    \/ StoreAddBlock
    \/ StoreAddTransactions
    \/ StoreAddBlockHeader
    \/ StoreOpen

Spec == Init /\ [][Next]_vars

\* The codec on its own.
InitCodec ==
    /\ EmptyStore
    /\ rd = [r \in Readers |-> RdIdle]
    /\ codec \in {[CodecIdle EXCEPT !.pc = "write", !.tx = Some(tx)] :
                     tx \in CodecTxs}
                 \cup {[CodecIdle EXCEPT !.pc = "read", !.row = Some(row)] :
                          row \in StoredRows}
    /\ main = MainOff
    /\ svc = SvcOff
    /\ app = AppOff

NextCodec == CodecAddTransaction \/ CodecTransaction

SpecCodec == InitCodec /\ [][NextCodec]_vars

\* The header codec on its own, on an empty store.
InitHeaderCodec ==
    /\ EmptyStore
    /\ rd = [r \in Readers |-> RdIdle]
    /\ codec \in {[CodecIdle EXCEPT !.pc = "write_header",
                                    !.tx = Some(header)] :
                     header \in CodecHeaders}
    /\ main = MainOff
    /\ svc = SvcOff
    /\ app = AppOff

NextHeaderCodec == CodecAddBlockHeader \/ CodecHeaderByHash

SpecHeaderCodec == InitHeaderCodec /\ [][NextHeaderCodec]_vars

\* The process, from the return of Database::new in main.
InitMain ==
    /\ EmptyStore
    /\ rd = [r \in Readers |-> RdIdle]
    /\ codec = CodecIdle
    /\ main \in {[MainOff EXCEPT !.pc = "populate_db", !.headless = h] :
                    h \in BOOLEAN}
    /\ svc = SvcOff
    /\ app = AppOff

NextMain ==
    \/ MainPopulateDb
    \/ MainSeedTransactions
    \/ MainSeedFailed
    \/ MainSpawn
    \/ MainJoin
    \/ SvcConnect
    \/ SvcNextHeader
    \/ SvcFetch
    \/ SvcAddTransactions
    \/ SvcWritten
    \/ AppRun
    \/ AppOnTick
    \/ AppQuit

SpecMain == InitMain /\ [][NextMain]_vars

\* The process started with its display, for the combinations of the
\* block and transaction arguments.  (InitMain is the start without them.)
BlockArguments == {None, Some(Hash(1)), Some(Number(101))}
TransactionArguments == {None, Some(10)}

InitStartup ==
    /\ EmptyStore
    /\ rd = [r \in Readers |-> RdIdle]
    /\ codec = CodecIdle
    /\ main \in {[MainOff EXCEPT !.pc = "populate_db", !.headless = h,
                                 !.block = block, !.transaction = tx] :
                    h \in BOOLEAN, block \in BlockArguments,
                    tx \in TransactionArguments}
    /\ svc = SvcOff
    /\ app = AppOff

SpecStartup == InitStartup /\ [][NextMain]_vars

\* The display loop and its keys, on a store that was seeded and that the
\* ingestion path goes on writing to.
AppBlocks ==
    {MkBlock(1, 100, <<"legacy", "dynamic">>), MkBlock(2, 101, <<"legacy">>)}

InitApp ==
    LET seed == MkBlock(1, 100, <<"legacy", "dynamic">>)
    IN  /\ block_headers = <<add_block_header(seed.header)>>
        /\ transactions = [i \in DOMAIN seed.transactions |->
                              add_transaction(seed.transactions[i]).v]
        /\ w = [pc |-> "idle", op |-> "add_block", block |-> Some(seed),
                i |-> 2, res |-> "Ok"]
        /\ nwrites = 1
        /\ rd = [r \in Readers |-> RdIdle]
        /\ codec = CodecIdle
        /\ main = [MainOff EXCEPT !.pc = "run", !.seed = Some(seed)]
        /\ svc = SvcOff
        /\ app = AppOff

AppAddBlock ==
    /\ \E block \in AppBlocks : AddBlockBegin(block)
    /\ UNCHANGED <<rd, codec, main, svc, app>>

NextApp ==
    \/ AppAddBlock
    \/ StoreAddTransactions
    \/ AppRun
    \/ AppOnTick
    \/ AppOnUp
    \/ AppOnDown
    \/ AppOnEnter
    \/ AppOnEsc
    \/ AppOnKey
    \/ AppQuit

SpecApp == InitApp /\ [][NextApp]_vars

\* The service thread on its own, in a headless process whose seed
\* write has returned Ok: main waits in join.  (NextMain leaves the
\* node's further announcements out: nothing reads them.)
SvcSeeds == {MkBlock(1, 100, <<"legacy">>), MkBlock(2, 101, << >>)}

InitSvc ==
    \E seed \in SvcSeeds :
        /\ block_headers = <<add_block_header(seed.header)>>
        /\ transactions = [i \in DOMAIN seed.transactions |->
                              add_transaction(seed.transactions[i]).v]
        /\ w = [pc |-> "idle", op |-> "add_block", block |-> Some(seed),
                i |-> 1, res |-> "Ok"]
        /\ nwrites = 1
        /\ rd = [r \in Readers |-> RdIdle]
        /\ codec = CodecIdle
        /\ main = [MainOff EXCEPT !.pc = "join", !.headless = TRUE,
                                  !.seed = Some(seed)]
        /\ svc = [SvcOff EXCEPT !.pc = "connect"]
        /\ app = AppOff

NextSvc ==
    \/ SvcConnect
    \/ SvcNextHeader
    \/ NodeAnnounce
    \/ SvcFetch
    \/ SvcAddTransactions
    \/ SvcWritten
    \/ MainJoin

SpecSvc == InitSvc /\ [][NextSvc]_vars

\* The service thread under fairness: the runtime keeps polling the
\* future, so the connection, the fetch and the write are each carried
\* through.  Nothing makes the node announce a block or answer without an
\* error.
SpecSvcFair ==
    /\ InitSvc
    /\ [][NextSvc]_vars
    /\ WF_vars(SvcConnect)
    /\ WF_vars(SvcFetch)
    /\ WF_vars(SvcAddTransactions)
    /\ WF_vars(SvcWritten)

\* AnyClient::new on its own, for each endpoint.
InitClient ==
    /\ EmptyStore
    /\ rd = [r \in Readers |-> RdIdle]
    /\ codec = CodecIdle
    /\ main = MainOff
    /\ svc \in {[SvcOff EXCEPT !.client.pc = "new", !.client.url = Some(url)] :
                   url \in Urls}
    /\ app = AppOff

NextClient ==
    \/ AnyClientNew
    \/ ClientConnect
    \/ ClientGetChainId

SpecClient == InitClient /\ [][NextClient]_vars

\* One writer and the readers, on one store.
ConcBlocks ==
    {MkBlock(h, n, k) :
        h \in BlockHashes, n \in BlockNumbers,
        k \in {<< >>, <<"legacy">>, <<"legacy", "dynamic">>}}

ConcAddBlock ==
    /\ \E block \in ConcBlocks : AddBlockBegin(block)
    /\ UNCHANGED <<rd, codec, main, svc, app>>

ConcAddTransactions ==
    /\ AddTransactionsStep
    /\ UNCHANGED <<rd, codec, main, svc, app>>

ConcLatestBlock ==
    /\ \E r \in Readers : ReadLatestBlock(r)
    /\ UNCHANGED <<block_headers, transactions, w, nwrites, codec, main,
                   svc, app>>

ConcBlockByHash ==
    /\ \E r \in Readers, hash \in BlockHashes : ReadBlockByHash(r, hash)
    /\ UNCHANGED <<block_headers, transactions, w, nwrites, codec, main,
                   svc, app>>

ConcHeaderByHash ==
    /\ \E r \in Readers : ReadHeaderByHash(r)
    /\ UNCHANGED <<block_headers, transactions, w, nwrites, codec, main,
                   svc, app>>

ConcTransactionsByBlockHash ==
    /\ \E r \in Readers : ReadTransactionsByBlockHash(r)
    /\ UNCHANGED <<block_headers, transactions, w, nwrites, codec, main,
                   svc, app>>

NextConc ==
    \/ ConcAddBlock
    \/ ConcAddTransactions
    \/ ConcLatestBlock
    \/ ConcBlockByHash
    \/ ConcHeaderByHash
    \/ ConcTransactionsByBlockHash

SpecConc == Init /\ [][NextConc]_vars

\* One writer and a reader inside block_by_number; the readers have no
\* effect on each other or on the writer, so one is followed.
ByNumberCall ==
    /\ \E number \in BlockNumbers : ReadBlockByNumber("r1", number)
    /\ UNCHANGED <<block_headers, transactions, w, nwrites, codec, main,
                   svc, app>>

ByNumberHash ==
    /\ ReadHashByNumber("r1")
    /\ UNCHANGED <<block_headers, transactions, w, nwrites, codec, main,
                   svc, app>>

ByNumberTransactions ==
    /\ ReadTransactionsByNumber("r1")
    /\ UNCHANGED <<block_headers, transactions, w, nwrites, codec, main,
                   svc, app>>

NextByNumber ==
    \/ ConcAddBlock
    \/ ConcAddTransactions
    \/ ByNumberCall
    \/ ByNumberHash
    \/ ByNumberTransactions

SpecByNumber == Init /\ [][NextByNumber]_vars

\* The ingestion path and the readers on one pool.  No statement fails
\* here: the only error is the pool's.  A get() returns within
\* connection_timeout, with a connection or with the error, so the waits
\* are weakly fair; nothing makes a thread give a connection back.
PoolBlocks ==
    {MkBlock(h, n, k) :
        h \in BlockHashes, n \in BlockNumbers, k \in {<< >>, <<"legacy">>}}

PoolWriterCall ==
    /\ \E block \in PoolBlocks : PoolAddBlock(block)
    /\ UNCHANGED <<codec, main, svc, app>>

PoolWriterGet ==
    /\ PoolWriterAcquire \/ PoolWriterTimeout
    /\ UNCHANGED <<codec, main, svc, app>>

PoolWriterInsert ==
    /\ PoolWriterTransact
    /\ UNCHANGED <<codec, main, svc, app>>

PoolReaderBegin ==
    /\ \E r \in Readers : PoolReaderCall(r)
    /\ UNCHANGED <<codec, main, svc, app>>

PoolReaderGet(r) ==
    /\ PoolReaderAcquire(r) \/ PoolReaderTimeout(r)
    /\ UNCHANGED <<codec, main, svc, app>>

PoolReaderEnd ==
    /\ \E r \in Readers : PoolReaderQuery(r)
    /\ UNCHANGED <<codec, main, svc, app>>

NextPool ==
    \/ PoolWriterCall
    \/ PoolWriterGet
    \/ PoolWriterInsert
    \/ PoolReaderBegin
    \/ \E r \in Readers : PoolReaderGet(r)
    \/ PoolReaderEnd

SpecPool ==
    /\ Init
    /\ [][NextPool]_vars
    /\ WF_vars(PoolWriterGet)
    /\ \A r \in Readers : WF_vars(PoolReaderGet(r))

(***************************************************************************)
(* Claims about the codec (checked under SpecCodec)                        *)
(***************************************************************************)

CodecWritten == codec.pc \in {"read", "done"} /\ codec.wres = Some("Ok")

\* C5: a transaction of any of the five types that add_transaction wrote
\* reads back through transaction(hash) as Ok with every field equal to
\* the original's, optional fields present exactly when they were.
C5_RoundTrip ==
    (codec.pc = "done" /\ codec.wres = Some("Ok"))
        => codec.dec = Some(Ok(Unwrap(codec.tx)))

\* C7: the written row holds NULL in the optional columns its type does
\* not use (gas_price for types 2, 3, 4; the two fee columns for types 0
\* and 1), and a legacy gas price of zero is written as the integer 0.
C7_AbsentFieldsAreNull ==
    CodecWritten =>
        LET tx == Unwrap(codec.tx)
            row == Unwrap(codec.row)
        IN  /\ tx.type \in {2, 3, 4} => row.gas_price = SqlNull
            /\ tx.type \in {0, 1} =>
                  /\ row.max_fee_per_gas = SqlNull
                  /\ row.max_priority_fee_per_gas = SqlNull
            /\ (tx.type = 0 /\ tx.gas_price = Some(W(0, 0)))
                  => row.gas_price = SqlInt(0)

\* C8: decoding a row whose type tag is none of 0..4 returns Err (never a
\* panic, never a transaction), and a decoded transaction has the type the
\* stored tag names.
C8_UnknownTagIsError ==
    (codec.pc = "done" /\ IsSome(codec.dec)) =>
        LET row == Unwrap(codec.row)
            dec == Unwrap(codec.dec)
        IN  /\ row.type.v \notin 0..4 => dec = Err
            /\ dec.res = "Ok" => dec.v.type = row.type.v

\* C8 witness: a row with tag 5 and a NULL priority fee was decoded.
C8_Witness ==
    /\ codec.pc = "done"
    /\ IsSome(codec.dec)
    /\ Unwrap(codec.row).type = SqlInt(5)
    /\ Unwrap(codec.row).max_priority_fee_per_gas = SqlNull
    /\ Unwrap(codec.dec) = Err

(***************************************************************************)
(* Claims about one thread's use of the store (checked under Spec)         *)
(***************************************************************************)

WriteReturned(op, res) == w.pc = "idle" /\ w.op = op /\ w.res = res

\* C1: when add_block, the first write to the store, fails after its
\* header insert, no transaction row of the block is in the store and
\* latest_block_header does not return the block's header.
C1_FailedAddBlockLeavesNoRow ==
    (nwrites = 1 /\ WriteReturned("add_block", "Err") /\ w.i >= 1) =>
        LET header == Unwrap(w.block).header
        IN  /\ SelectWhere(transactions, "block_hash",
                           HexString(header.hash)) = << >>
            /\ Ok(Some(header)) \notin latest_block_header(block_headers)

\* No two header rows share a hash.
DistinctHashes ==
    \A i, j \in DOMAIN block_headers :
        i # j => block_headers[i].hash # block_headers[j].hash

\* C3: after header insertions under distinct hashes, latest_block_header
\* returns the header inserted last, whatever the numbers of the headers
\* inserted before it.  (Stated in the claim's favour: the header inserted
\* last is a result the query may return.)
C3_LatestIsInsertedLast ==
    (block_headers # << >> /\ DistinctHashes) =>
        Found(row_to_header(block_headers[Len(block_headers)]))
            \in latest_block_header(block_headers)

\* C9: on the empty store latest_block_header and latest_block return
\* Ok(None); after a successful add_block_header or add_block both return
\* Ok(Some(..)).
C9_NoneOnlyBeforeFirstWrite ==
    /\ block_headers = << >> =>
          /\ latest_block_header(block_headers) = {Ok(None)}
          /\ latest_block(block_headers, transactions) = {Ok(None)}
    /\ (WriteReturned("add_block", "Ok")
           \/ WriteReturned("add_block_header", "Ok")) =>
          \A r \in latest_block_header(block_headers)
                   \cup latest_block(block_headers, transactions) :
              r.res = "Ok" /\ IsSome(r.v)

\* C10: when a successful add_block(B) is the only write made to the
\* store, latest_block returns B: its header and exactly its transactions.
C10_LatestBlockIsTheBlockAdded ==
    (nwrites = 1 /\ WriteReturned("add_block", "Ok")) =>
        latest_block(block_headers, transactions) = {Ok(Some(Unwrap(w.block)))}

\* The store holds exactly two blocks, added by two successful add_block
\* calls: first one whose only transaction is a legacy transaction, then
\* one, under another hash, whose only transaction is a dynamic-fee one.
ScenarioB ==
    /\ nwrites = 2
    /\ WriteReturned("add_block", "Ok")
    /\ Len(block_headers) = 2
    /\ Len(transactions) = 2
    /\ block_headers[1].hash # block_headers[2].hash
    /\ transactions[1].type = SqlInt(0)
    /\ transactions[1].block_hash = block_headers[1].hash
    /\ Len(Unwrap(w.block).transactions) = 1
    /\ Unwrap(w.block).transactions[1].type = 2

\* C6: in that store transactions_by_block_number(n), n the second block's
\* number, returns exactly one transaction: the second block's, with
\* gas_price absent and both fee fields as given.
C6_SecondBlockTransactions ==
    ScenarioB =>
        LET tx == Unwrap(w.block).transactions[1]
            got == transactions_by_block_number(
                       block_headers, transactions,
                       Unwrap(w.block).header.number.lo)
        IN  /\ got.res = "Ok"
            /\ Len(got.v) = 1
            /\ got.v[1].hash = tx.hash
            /\ got.v[1].gas_price = None
            /\ got.v[1].max_fee_per_gas = tx.max_fee_per_gas
            /\ got.v[1].max_priority_fee_per_gas = tx.max_priority_fee_per_gas

(***************************************************************************)
(* Claims about readers beside the writer (checked under SpecConc)         *)
(***************************************************************************)

\* C2: while add_block(B), the first write to the store, is under way or
\* has returned Ok, a reader whose latest_block or block_by_hash returns a
\* block with B's header gets all of B's transactions with it.
C2_ReadersSeeAllOrNothing ==
    \A r \in Readers :
        (/\ nwrites = 1
         /\ w.op = "add_block"
         /\ w.res # "Err"
         /\ rd[r].pc = "done"
         /\ rd[r].res # None
         /\ Unwrap(rd[r].res).res = "Ok"
         /\ IsSome(Unwrap(rd[r].res).v)
         /\ Unwrap(Unwrap(rd[r].res).v).header = Unwrap(w.block).header)
        => Len(Unwrap(Unwrap(rd[r].res).v).transactions)
               = Len(Unwrap(w.block).transactions)

(***************************************************************************)
(* Claims about the process (checked under SpecMain)                       *)
(***************************************************************************)

\* C4: whenever the indexing service has been spawned or the display loop
\* has been entered, the seed's add_block has returned Ok before: the
\* store holds the seed block's header and all of its transactions, and
\* latest_block_header finds a header.
C4_SeededBeforeSpawnAndRun ==
    (svc.pc # "off" \/ app.pc # "off" \/ main.pc \in {"run", "join"}) =>
        /\ block_headers # << >>
        /\ IsSome(main.seed)
        /\ header_by_hash(block_headers, Unwrap(main.seed).header.hash)
               = Ok(Some(Unwrap(main.seed).header))
        /\ Len(SelectWhere(transactions, "block_hash",
                           HexString(Unwrap(main.seed).header.hash)))
               >= Len(Unwrap(main.seed).transactions)
        /\ \A latest \in latest_block_header(block_headers) :
              latest.res = "Ok" /\ IsSome(latest.v)

\* C4 witness: the service writes a block while the display loop runs, on
\* a store that holds the seed block.
C4_Witness ==
    /\ svc.pc = "write"
    /\ app.pc = "loop"
    /\ Len(block_headers) >= 1


(***************************************************************************)
(* Lookups that find nothing (checked under Spec)                          *)
(***************************************************************************)

\* C11: in every store state a lookup by a hash or a number that no
\* stored row carries returns Ok(None): header_by_hash, block_by_hash,
\* header_by_number, block_by_number and transaction.
C11_NotFoundIsNone ==
    /\ \A hash \in BlockHashes \cup {3} :
          (\A i \in DOMAIN block_headers : block_headers[i].hash.v # hash)
              => /\ header_by_hash(block_headers, hash) = Ok(None)
                 /\ block_by_hash(block_headers, transactions, hash)
                        = Ok(None)
    /\ \A number \in BlockNumbers \cup {102} :
          (\A i \in DOMAIN block_headers :
              block_headers[i].number.v # number)
              => /\ header_by_number(block_headers, number) = Ok(None)
                 /\ block_by_number(block_headers, transactions, number)
                        = Ok(None)
    /\ \A hash \in {10, 11, 20, 21, 99} :
          (\A i \in DOMAIN transactions : transactions[i].hash.v # hash)
              => transaction(transactions, hash) = Ok(None)

\* C11 witness: a store with block 1 and a transaction of it, and without
\* block 2: the lookups for block 2 and its transactions find nothing.
C11_Witness ==
    /\ block_headers # << >>
    /\ transactions # << >>
    /\ \A i \in DOMAIN block_headers : block_headers[i].hash.v = 1
    /\ block_by_hash(block_headers, transactions, 2) = Ok(None)
    /\ transaction(transactions, 20) = Ok(None)
    /\ header_by_hash(block_headers, 1) # Ok(None)

\* C12: when the store holds no transaction row of a block, the two
\* transaction listings return Ok with an empty vector, also when no header
\* has the hash or the number asked for.
C12_NoTransactionsIsEmptyVector ==
    /\ \A hash \in BlockHashes \cup {3} :
          SelectWhere(transactions, "block_hash", HexString(hash)) = << >>
              => transactions_by_block_hash(transactions, hash) = Ok(<< >>)
    /\ \A number \in BlockNumbers \cup {102} :
          SelectWhere(transactions, "block_number", SqlInt(number)) = << >>
              => transactions_by_block_number(block_headers, transactions,
                                              number) = Ok(<< >>)

\* The number of transaction rows the add_block call under way, or the
\* one that returned last, has inserted.
Inserted ==
    IF w.res = "Ok" THEN Len(Unwrap(w.block).transactions)
    ELSE IF w.i = 0 THEN 0 ELSE w.i - 1

\* The last n elements of a sequence.
LastN(seq, n) == SubSeq(seq, Len(seq) - n + 1, Len(seq))

C14_EveryDeliveredHeaderProcessed ==
    [][(svc.stream # << >> /\ svc'.pc # "stopped") =>
          \/ /\ Len(svc'.stream) >= Len(svc.stream)
             /\ SubSeq(svc'.stream, 1, Len(svc.stream)) = svc.stream
          \/ /\ svc'.stream = Tail(svc.stream)
             /\ svc'.pc = "fetch"
             /\ Unwrap(svc'.block).header.hash = Head(svc.stream)]_vars

\* C15: whatever ends the loop (the end of the header stream, a failed
\* fetch, a failed write) is an error result of the thread, and a stopped
\* service takes no further header and writes nothing more.
C15_FailureEndsLoopWithError ==
    /\ [](svc.pc = "stopped" => svc.result = "Err")
    /\ [][svc.pc = "stopped" =>
             UNCHANGED <<svc, block_headers, transactions>>]_vars

\* A step of the loop in which get_block_by_hash is issued and answered.
FetchStep == svc.pc = "fetch" /\ svc'.pc # "fetch"

\* A step of the loop in which add_block's Ok is taken.
CommitStep ==
    svc.pc = "write" /\ w.pc = "idle" /\ w.res = "Ok" /\ svc'.pc # "write"

\* The counters apart from failed_rpc_requests: never decreasing,
\* rpc_requests one up with every fetch, blocks_added one up with every
\* block the loop committed and with nothing else.
CountersStep ==
    /\ svc'.rpc_requests =
          IF FetchStep THEN svc.rpc_requests + 1 ELSE svc.rpc_requests
    /\ svc'.blocks_added =
          IF CommitStep THEN svc.blocks_added + 1 ELSE svc.blocks_added
    /\ svc'.failed_rpc_requests >= svc.failed_rpc_requests

\* C16 as stated: failed_rpc_requests goes up by one with every fetch that
\* did not produce a block (an error answer, or the answer that there is no
\* such block), and with nothing else.
C16_CountersCountExactly ==
    [][/\ CountersStep
       /\ svc'.failed_rpc_requests =
             IF FetchStep /\ svc'.answer \in {"Err", "None"}
             THEN svc.failed_rpc_requests + 1
             ELSE svc.failed_rpc_requests]_vars

\* C16 amended: failed_rpc_requests goes up by one with every fetch the
\* node answered with an error, and with nothing else; a fetch answered
\* "no such block" ends the loop uncounted.
C16_CountersCountErrorAnswers ==
    [][/\ CountersStep
       /\ svc'.failed_rpc_requests =
             IF FetchStep /\ svc'.answer = "Err"
             THEN svc.failed_rpc_requests + 1
             ELSE svc.failed_rpc_requests]_vars

\* C16 witness: the node answered the loop's fetch with "no such block";
\* the request is counted, no failed request is, and the loop has stopped.
C16_Witness ==
    /\ svc.pc = "stopped"
    /\ svc.answer = "None"
    /\ svc.rpc_requests = 1
    /\ svc.failed_rpc_requests = 0
    /\ svc.blocks_added = 0

(***************************************************************************)
(* Claims about the rows of the store (checked under Spec)                 *)
(***************************************************************************)

\* C17: in every store state no two header rows share a hash and no two
\* transaction rows share a hash.
C17_NoIdentityStoredTwice ==
    /\ \A i, j \in DOMAIN block_headers :
          i # j => block_headers[i].hash # block_headers[j].hash
    /\ \A i, j \in DOMAIN transactions :
          i # j => transactions[i].hash # transactions[j].hash

\* C18: in every store state add_block leads to, the states in the middle
\* of a call included, the block_hash of every transaction row is the hash
\* of a header row in the store.
C18_HeaderBeforeTransactions ==
    \A i \in DOMAIN transactions :
        \E j \in DOMAIN block_headers :
            block_headers[j].hash = transactions[i].block_hash

\* C18 witness: add_block is between two transaction inserts.
C18_Witness ==
    /\ w.pc = "txs"
    /\ w.i = 2
    /\ SelectWhere(transactions, "block_hash",
                   HexString(Unwrap(w.block).header.hash)) # << >>

\* C19: no step of the store changes or removes a row: the tables only
\* grow at their end, and a header found by its hash is found unchanged
\* after every later step.
C19_RowsNeverChange ==
    [][/\ Len(block_headers') >= Len(block_headers)
       /\ SubSeq(block_headers', 1, Len(block_headers)) = block_headers
       /\ Len(transactions') >= Len(transactions)
       /\ SubSeq(transactions', 1, Len(transactions)) = transactions
       /\ \A hash \in BlockHashes :
             header_by_hash(block_headers, hash) # Ok(None) =>
                 header_by_hash(block_headers', hash)
                     = header_by_hash(block_headers, hash)]_vars

\* C19 witness: a header is in the store beside an earlier one of another
\* hash whose number is the same or higher, and the earlier one is found
\* by its hash.
C19_Witness ==
    /\ Len(block_headers) = 2
    /\ block_headers[1].hash # block_headers[2].hash
    /\ block_headers[2].number.v <= block_headers[1].number.v
    /\ header_by_hash(block_headers, block_headers[1].hash.v)
           = Ok(Some(row_to_header(block_headers[1]).v))

\* C20: Database::new on the location of a store that holds rows returns
\* Ok and leaves every row of both tables in place.
C20_OpenIsIdempotent ==
    [][w'.op = "new" =>
          /\ w'.res = "Ok"
          /\ block_headers' = block_headers
          /\ transactions' = transactions]_vars

\* C20 witness: the store was opened again while it held a header and a
\* transaction.
C20_Witness ==
    /\ WriteReturned("new", "Ok")
    /\ block_headers # << >>
    /\ transactions # << >>

(***************************************************************************)
(* Claims about start-up and about readers beside the service (checked     *)
(* under SpecMain)                                                         *)
(***************************************************************************)

\* populate_db has returned an error: the connection or the fetch of the
\* seed block failed, or the seed's add_block did.
SeedFailed ==
    /\ main.pc # "populate_db"
    /\ main.result # "Panic"
    /\ \/ ~IsSome(main.seed)
       \/ nwrites = 1 /\ WriteReturned("add_block", "Err")

\* C21: when the start-up seed has failed, the service is not spawned and
\* the display loop is not started, now or later, and main exits with the
\* error.
C21_FailedSeedEndsProcess ==
    SeedFailed =>
        /\ svc = SvcOff
        /\ app = AppOff
        /\ main.pc \in {"seeding", "exit"}
        /\ main.pc = "exit" => main.result = "Err"

\* C21 witness: the seed's add_block failed after its header insert and
\* main has exited.
C21_Witness ==
    /\ main.pc = "exit"
    /\ main.result = "Err"
    /\ IsSome(main.seed)
    /\ WriteReturned("add_block", "Err")
    /\ block_headers # << >>
    /\ svc = SvcOff

\* C22: once the loop has stopped with an error while the display runs,
\* the store holds the headers of the completely committed blocks only (the
\* seed and the blocks the loop counted), and the reads of the display's
\* tick, latest_block_header and the lookup of that block, return Ok with
\* a block.
C22_ReadersServeLastCommittedState ==
    (svc.pc = "stopped" /\ svc.result = "Err" /\ app.pc = "loop") =>
        /\ Len(block_headers) = 1 + svc.blocks_added
        /\ \A latest \in latest_block_header(block_headers) :
              /\ latest.res = "Ok"
              /\ IsSome(latest.v)
              /\ LET block == block_by_hash(block_headers, transactions,
                                            Unwrap(latest.v).hash)
                 IN  block.res = "Ok" /\ IsSome(block.v)

(***************************************************************************)
(* Claims about rows that do not decode (checked under Spec) and about     *)
(* wide numbers (checked under SpecCodec)                                  *)
(***************************************************************************)

\* C23: a transaction row that decodes is returned by the listing of its
\* block, transactions_by_block_hash, whatever the other rows of the block
\* are, and by transaction(hash).
C23_DecodeFailureIsIsolated ==
    \A i \in DOMAIN transactions :
        LET row == transactions[i]
            decoded == row_to_transaction(row)
            listing == transactions_by_block_hash(transactions,
                                                  row.block_hash.v)
        IN  decoded.res = "Ok" =>
               /\ listing.res = "Ok"
               /\ \E k \in DOMAIN listing.v : listing.v[k] = decoded.v
               /\ transaction(transactions, row.hash.v).res = "Ok"

\* C24: value, gas_price, max_fee_per_gas and max_priority_fee_per_gas of
\* a transaction that add_transaction wrote and transaction(hash) decoded
\* are read back as they were, also when they are 2^64 or more.
C24_WideFieldsKeepPrecision ==
    (/\ codec.pc = "done"
     /\ codec.wres = Some("Ok")
     /\ IsSome(codec.dec)
     /\ Unwrap(codec.dec).res = "Ok") =>
        LET tx == Unwrap(codec.tx)
            dec == Unwrap(codec.dec).v
        IN  /\ dec.value = tx.value
            /\ dec.gas_price = tx.gas_price
            /\ dec.max_fee_per_gas = tx.max_fee_per_gas
            /\ dec.max_priority_fee_per_gas = tx.max_priority_fee_per_gas

(***************************************************************************)
(* Claims about the header codec (checked under SpecHeaderCodec)           *)
(***************************************************************************)

\* C25: a header that add_block_header wrote is read back by
\* header_by_hash with each of the six optional fields absent when it was
\* absent, and present and equal when it was present, zero included.
C25_OptionalHeaderFieldsRoundTrip ==
    (codec.pc = "done" /\ codec.wres = Some("Ok")) =>
        LET header == Unwrap(codec.tx)
            dec == Unwrap(codec.dec)
        IN  /\ dec.res = "Ok"
            /\ IsSome(dec.v)
            /\ \A field \in {"base_fee_per_gas", "withdrawals_root",
                             "blob_gas_used", "excess_blob_gas",
                             "parent_beacon_block_root", "requests_hash"} :
                  Unwrap(dec.v)[field] = header[field]

(***************************************************************************)
(* Claims about the connection pool (checked under SpecPool)               *)
(***************************************************************************)

\* C26: whatever the readers are doing, an add_block issued by the
\* ingestion path completes successfully.  With no statement failing, no
\* add_block call returns an error.
C26_ReadersNeverFailAddBlock ==
    ~(w.op = "add_block" /\ w.pc = "idle" /\ w.res = "Err")

\* A get() made while every connection is checked out.
WriterStarved == w.pc = "get" /\ Held = max_size
ReaderStarved(r) == rd[r].pc = "get" /\ Held = max_size

\* C27: a store operation invoked while every pooled connection is held by
\* other callers does not wait forever; when it gets no connection it
\* returns an error and the rows are as they were.
C27_ExhaustedPoolFailsFast ==
    /\ (w.pc = "get") ~> (w.pc # "get")
    /\ \A r \in Readers : (rd[r].pc = "get") ~> (rd[r].pc # "get")
    /\ [][/\ (WriterStarved /\ w'.pc # "get") =>
                /\ w'.pc = "idle" /\ w'.res = "Err"
                /\ block_headers' = block_headers
                /\ transactions' = transactions
          /\ \A r \in Readers :
                (ReaderStarved(r) /\ rd'[r].pc # "get") =>
                    /\ rd'[r].pc = "done" /\ rd'[r].res = Some(Err)
                    /\ block_headers' = block_headers
                    /\ transactions' = transactions]_vars

\* An add_block that asked for a connection after the first block was
\* committed and returned the error, the store still holding that block
\* alone, while both readers hold their connections.
C27_Witness ==
    /\ w.op = "add_block" /\ w.pc = "idle" /\ w.res = "Err"
    /\ nwrites = 2
    /\ Len(block_headers) = 1
    /\ \A r \in Readers : rd[r].pc = "conn"

(***************************************************************************)
(* Claims about the client (checked under SpecClient)                      *)
(***************************************************************************)

SupportedSchemes == {"ws", "wss", "ipc"}

\* C28: AnyClient::new fails fast.  For a scheme that is not supported it
\* returns an error and attempts no connection; for a supported scheme it
\* makes one connection attempt and then one chain-identity query; the
\* failure of either is returned as an error, nothing is tried twice, and
\* no client is made.
C28_AnyClientNewFailsFast ==
    LET client == svc.client
    IN  /\ client.connects <= 1
        /\ client.queries <= client.connects
        /\ client.pc = "done" =>
              /\ client.res \in {"Ok", "Err"}
              /\ IsSome(client.v) <=> client.res = "Ok"
              /\ IF Unwrap(client.url).scheme \in SupportedSchemes
                 THEN /\ client.connects = 1
                      /\ client.res = "Ok" => client.queries = 1
                 ELSE client.res = "Err" /\ client.connects = 0

(***************************************************************************)
(* Further claims about the indexing service                               *)
(***************************************************************************)

\* C29 (checked under SpecSvc): the service thread never returns a result,
\* so joining on its handle never yields.
C29_JoinNeverYields ==
    svc.pc # "stopped" /\ ~(main.headless /\ main.pc = "exit")

\* The header with this hash is in the subscription, emitted by the node
\* and not yet taken by next().
Emitted(hash) == \E i \in DOMAIN svc.stream : svc.stream[i] = hash

\* The block with this hash is committed to the store: header_by_hash
\* finds its header.
Committed(hash) ==
    LET found == header_by_hash(block_headers, hash)
    IN  found.res = "Ok" /\ IsSome(found.v)

\* C30 (checked under SpecSvcFair): when no fetch, no write and no
\* subscription fails and the loop is never stopped, every header the node
\* emits to the loop's subscription is eventually fetched and committed,
\* also one emitted while the loop fetches or writes the previous block.
C30_EmittedHeadersAreCommitted ==
    [](svc.pc # "stopped" /\ w.res # "Err") =>
        \A hash \in BlockHashes : Emitted(hash) ~> Committed(hash)

(***************************************************************************)
(* Claims about the display loop                                           *)
(***************************************************************************)

\* C31 (checked under SpecMain): the startup of the display loop succeeds
\* whenever the store holds at least one block: ui::run does not panic,
\* also when the latest block has no transactions.
C31_StartupSucceedsWithABlock ==
    [][(main.pc = "run" /\ app.pc = "off" /\ block_headers # << >>) =>
          app'.pc # "panic"]_vars

\* Whether the store holds the block a BlockHashOrNumber names.
BlockInStore(id) ==
    LET found == IF id.kind = "Hash" THEN header_by_hash(block_headers, id.v)
                 ELSE header_by_number(block_headers, id.v)
    IN  found.res = "Ok" /\ IsSome(found.v)

\* Whether the store holds the transaction with a hash.
TransactionInStore(tx_hash) ==
    SelectWhere(transactions, "hash", HexString(tx_hash)) # << >>

\* C32 (checked under SpecStartup): when the display loop is started with
\* a block argument, the seed has written the block it names, whatever the
\* transaction argument; started with the transaction argument alone, the
\* store holds that transaction.
C32_SeedWroteWhatTheDisplayLooksUp ==
    (main.pc = "run" /\ app.pc = "off") =>
        /\ IsSome(main.block) => BlockInStore(Unwrap(main.block))
        /\ (~IsSome(main.block) /\ IsSome(main.transaction)) =>
              TransactionInStore(Unwrap(main.transaction))

(***************************************************************************)
(* Claims about block_by_number (checked under SpecByNumber)               *)
(***************************************************************************)

\* Every transaction of the block is under the hash of the block's header.
SelfConsistent(block) ==
    \A i \in DOMAIN block.transactions :
        block.transactions[i].block_hash = Some(block.header.hash)

EnterStep == app.pc = "loop" /\ app' = on_enter(app) /\ app' # app
EscStep == app.pc = "loop" /\ app'.pc # "panic"
           /\ [app' EXCEPT !.pc = "loop"] = on_esc(app)

\* C34: the view moves one level per key press.  on_enter goes from
\* Default to Block only with a header selected and never from Default to
\* Transaction, from Block to Transaction only with a transaction
\* selected, and leaves the Transaction view as it is; on_esc goes from
\* Transaction to Block, from Block to Default, and in Default sets
\* should_quit and leaves the view.
C34_OneLevelPerKeyPress ==
    [][/\ EnterStep =>
             /\ app.view = "Default" =>
                   /\ app'.view \in {"Default", "Block"}
                   /\ app'.view = "Block" => IsSome(get_selected_header(app))
             /\ app.view = "Block" =>
                   /\ app'.view \in {"Block", "Transaction"}
                   /\ app'.view = "Transaction" =>
                         IsSome(get_selected_transaction(app))
             /\ app.view = "Transaction" => app'.view = "Transaction"
       /\ EscStep =>
             /\ app.view = "Transaction" => app'.view = "Block"
             /\ app.view = "Block" => app'.view = "Default"
             /\ app.view = "Default" =>
                   app'.view = "Default" /\ app'.should_quit]_vars

\* A key is handled by on_up or by on_down in this step: a call of
\* previous or next on the list of the view.
NavigationStep ==
    /\ app.pc = "loop"
    /\ \E overflow_checks \in BOOLEAN :
          app' \in {on_up(app, overflow_checks), on_down(app, overflow_checks)}

\* The selection of a list is unset or the offset of one of its items.
SelectionInList(list) ==
    IsSome(list.state) =>
        Unwrap(list.state) >= 0 /\ Unwrap(list.state) < Len(list.items)

\* C38: after any calls of next and previous the selected index of a
\* StatefulList is unset or less than the number of its items, and neither
\* call fails or underflows, also on an empty list.
C38_SelectionStaysInList ==
    [][NavigationStep =>
          /\ app'.pc # "panic"
          /\ SelectionInList(app'.block_headers)
          /\ SelectionInList(app'.transactions)]_vars

\* The headers that latest_block_header may return on the store as it is.
LatestHeaders ==
    {Unwrap(latest.v) : latest \in {l \in latest_block_header(block_headers) :
                                       l.res = "Ok" /\ IsSome(l.v)}}

\* C37: the display's header list holds each header at most once, is only
\* ever appended to, and every header it holds was the store's latest
\* header at the tick that appended it.
C37_HeaderListOfLatestHeaders ==
    /\ [](\A i, j \in DOMAIN app.block_headers.items :
            app.block_headers.items[i] = app.block_headers.items[j] => i = j)
    /\ [][\/ app'.block_headers.items = app.block_headers.items
          \/ \E header \in LatestHeaders :
                /\ app'.block_headers.items =
                       Append(app.block_headers.items, header)
                /\ app.pc = "loop"]_vars

\* Two ticks have each appended the header that was the latest, and the
\* store holds nothing else.
C37_Witness ==
    /\ app.pc = "loop"
    /\ Len(app.block_headers.items) = 2
    /\ Len(block_headers) = 2

(***************************************************************************)
(* A further claim about the codec (checked under SpecCodec)               *)
(***************************************************************************)

\* C35: the recipient of a transaction survives storage: a creation reads
\* back as a creation, and a call to an address, the all-zero address
\* included, as a call to that address.
C35_RecipientSurvivesStorage ==
    (/\ codec.pc = "done"
     /\ codec.wres = Some("Ok")
     /\ Unwrap(codec.dec).res = "Ok") =>
        Unwrap(codec.dec).v.to = Unwrap(codec.tx).to

(***************************************************************************)
(* A further claim about the counters (checked under SpecSvc)              *)
(***************************************************************************)

\* The loop has stopped on a failed add_block.
WriteFailures == IF svc.pc = "stopped" /\ w.res = "Err" THEN 1 ELSE 0

\* The loop has stopped on the answer that there is no such block.
NoBlockAnswers == IF svc.pc = "stopped" /\ svc.answer = "None" THEN 1 ELSE 0

\* A block is fetched and its add_block has not returned to the loop.
InProgress == IF svc.pc = "write" THEN 1 ELSE 0

\* C36 as stated: when the loop has stopped because a fetch produced no
\* block (an error answer, or the answer that there is no such block),
\* failed_rpc_requests counts that request; so at every moment
\* rpc_requests = blocks_added + failed_rpc_requests + write failures
\* + 1 if a fetch-and-write is in progress.
C36_CountersBalance ==
    /\ (svc.pc = "stopped" /\ svc.answer \in {"Err", "None"}) =>
           svc.failed_rpc_requests = 1
    /\ svc.rpc_requests = svc.blocks_added + svc.failed_rpc_requests
                              + WriteFailures + InProgress

\* C36 amended: failed_rpc_requests counts the request when the loop has
\* stopped on an error answer and not when it has stopped on the answer
\* that there is no such block; the balance has a term for those answers.
C36_CountersBalanceWithNoBlockAnswers ==
    /\ (svc.pc = "stopped" /\ svc.answer = "Err") =>
           svc.failed_rpc_requests = 1
    /\ (svc.pc = "stopped" /\ svc.answer = "None") =>
           svc.failed_rpc_requests = 0
    /\ svc.rpc_requests = svc.blocks_added + svc.failed_rpc_requests
                              + WriteFailures + NoBlockAnswers + InProgress

\* C36 witness: the loop has stopped on the answer "no such block" and
\* main has joined it; one request, none failed, no block added.
C36_Witness ==
    /\ main.pc = "exit"
    /\ svc.pc = "stopped"
    /\ svc.answer = "None"
    /\ svc.rpc_requests = 1
    /\ svc.failed_rpc_requests + svc.blocks_added + WriteFailures = 0

=============================================================================
